---------------------------- MODULE Spec2Model ----------------------------
(***************************************************************************)
(* A model of the duplicate engine (duplicate_detector.py) and of the      *)
(* organizer (organizer.py) of agentic-organizer.                          *)
(*                                                                         *)
(* Python values.  A str is a sequence of one-character strings, so that   *)
(* replace, strip, slicing and pathlib's splitting are computed and not    *)
(* assumed.  None is the one-element sequence <<"None">>: its element is   *)
(* not a character, so it differs from every str.  A pathlib.Path is the   *)
(* sequence of its parts.  A dict is the sequence of its [key, val]        *)
(* entries in insertion order.  A datetime is [year, month, day].          *)
(***************************************************************************)
EXTENDS Integers, Sequences, FiniteSets, TLC

VARIABLES
    files,        \* DuplicateDetector: the argument of the latest find_duplicates
    duplicates,   \* DuplicateDetector.duplicates
    found_before, \* whether a find_duplicates before the latest one found duplicates
    op,           \* the operation that ran last
    ret,          \* what it returned
    name,         \* FileOrganizer._sanitize_name: its argument
    sanitized,    \* FileOrganizer._sanitize_name: its result, None before the call
    categorizations,      \* organize_by_category: the dict FileInfo -> classification
    organize_by_date,     \* organize_by_category: its flag
    organize_by_project,  \* organize_by_category: its flag
    org_files,            \* organize_by_category: its files argument
    denied,               \* the filesystem: the directories that refuse new entries
    dirs,                 \* the filesystem: the directories
    disk,                 \* the filesystem: the regular files, path -> content
    moved_files,          \* FileOrganizer.moved_files
    category_groups,      \* organize_by_category: its local dict category -> pairs
    category_path,        \* organize_by_category: its local, the category root
    dest_path,            \* what _determine_destination returned last, None before
    pc,                   \* where organize_by_category stands
    group_i,              \* the outer loop's position in category_groups
    file_i,               \* the inner loop's position in the group
    raised,               \* the exception that left organize_by_category, "ok" if none
    dest_name,            \* _move_file: its local after sanitizing, None before a call
    returned,             \* the lists organize_by_category returned, oldest first
    calls,                \* how many calls of the operation under study have begun
    threads,              \* the threads inside organize_files on the shared agent
    cli,                  \* OrganizerAgent: its dry_run flag and where scan_and_organize stands
    scan_results,         \* web_app.scan_results
    jobs,                 \* web_app: the background threads that have not finished
    counter,              \* _move_file: its local counter
    candidate,            \* _move_file: its local dest_path, None before it is bound
    provider,             \* FileCategorizer.provider
    batch_size,           \* categorize_files: its parameter
    batch_start,          \* categorize_files: its loop variable i
    result,               \* _categorize_batch: what the provider answered last
    results               \* categorize_files: its local dict

dupVars == <<files, duplicates, found_before, op, ret>>
sanVars == <<name, sanitized>>
runVars == <<categorizations, organize_by_date, organize_by_project, org_files, denied>>
fsVars  == <<dirs, disk>>
logVars == <<dest_name, returned, calls>>
orgVars == <<runVars, fsVars, moved_files, category_groups, category_path,
             dest_path, pc, group_i, file_i, raised, logVars>>
webVars == <<scan_results, jobs>>
loopVars == <<counter, candidate>>
catVars == <<provider, batch_size, batch_start, result, results>>
appVars == <<threads, cli, webVars, loopVars, catVars>>
vars == <<dupVars, sanVars, orgVars, appVars>>

(***************************************************************************)
(* Bounds of the model.                                                    *)
(***************************************************************************)
MaxFiles == 3       \* records in one list handed to find_duplicates
MaxEdge == 2        \* characters drawn freely at each end of a name to sanitize
MaxBatch == 2       \* classified files in one organize run
MaxCalls == 2       \* calls of one operation on one organizer
MaxTaken == 2       \* numbered alternatives of a name that can be occupied beforehand
MaxThreads == 2     \* do_organize threads alive at the same time
MaxScanned == 2     \* files in one list handed to categorize_files
MaxRequests == 3    \* requests the web application accepts

(***************************************************************************)
(* Python values and helpers.                                              *)
(***************************************************************************)
None == <<"None">>

\* a bug Truthy could have: `is not None` where truthiness was meant
Truthy_NotNone(x) == x # None

Truthy(x) == x # None /\ x # <<>>

Range(s) == {s[i] : i \in 1..Len(s)}

RECURSIVE SeqsUpTo(_, _)
SeqsUpTo(S, n) ==
    IF n = 0 THEN {<<>>}
    ELSE LET shorter == SeqsUpTo(S, n - 1)
         IN  shorter \cup {Append(s, x) : s \in {t \in shorter : Len(t) = n - 1}, x \in S}

(***************************************************************************)
(* file_scanner.FileInfo.  Only the fields the duplicate engine and the    *)
(* organizer read are kept.                                                *)
(***************************************************************************)
Root == <<"/">>

FileInfo(path, size, modified, hash) ==
    [path |-> path, name |-> path[Len(path)], size |-> size,
     modified |-> modified, hash |-> hash]

\* datetime's order: chronological, which on [year, month, day] is lexicographic
DateLess(a, b) ==
    \/ a.year < b.year
    \/ a.year = b.year /\ a.month < b.month
    \/ a.year = b.year /\ a.month = b.month /\ a.day < b.day

(***************************************************************************)
(* DuplicateDetector.find_duplicates                                       *)
(***************************************************************************)
DictKeys(d) == {d[i].key : i \in 1..Len(d)}

DictGet(d, k) == (CHOOSE i \in 1..Len(d) : d[i].key = k)

\* hash_groups[file.hash].append(file) on a defaultdict(list)
DictAppend(d, k, x) ==
    IF k \in DictKeys(d)
    THEN [d EXCEPT ![DictGet(d, k)].val = Append(@, x)]
    ELSE Append(d, [key |-> k, val |-> <<x>>])

\* the first loop: records with a truthy hash, grouped by hash
RECURSIVE hash_groups(_)
hash_groups(fs) ==
    IF fs = <<>> THEN <<>>
    ELSE LET n    == Len(fs)
             file == fs[n]
             rest == hash_groups(SubSeq(fs, 1, n - 1))
         IN  IF Truthy(file.hash) THEN DictAppend(rest, file.hash, file) ELSE rest

\* a bug IsDuplicateGroup could have: an off-by-one threshold
IsDuplicateGroup_Single(file_list) == Len(file_list) > 0

\* the second loop's condition: len(file_list) > 1
IsDuplicateGroup(file_list) == Len(file_list) > 1

find_duplicates(fs) ==
    SelectSeq(hash_groups(fs), LAMBDA e : IsDuplicateGroup(e.val))

(***************************************************************************)
(* DuplicateDetector.suggest_cleanup                                       *)
(***************************************************************************)
\* a bug KeyLess could have: the newer first, as the source's comment words it
KeyLess_NewerFirst(a, b) ==
    \/ Len(a.path) > Len(b.path)
    \/ Len(a.path) = Len(b.path) /\ DateLess(b.modified, a.modified)

\* the sort key (-len(f.path.parts), f.modified), compared as Python tuples
KeyLess(a, b) ==
    \/ Len(a.path) > Len(b.path)
    \/ Len(a.path) = Len(b.path) /\ DateLess(a.modified, b.modified)

\* x goes before the first element whose key is greater than its own
InsertSorted(s, x) ==
    LET later == {i \in 1..Len(s) : KeyLess(x, s[i])}
    IN  IF later = {} THEN Append(s, x)
        ELSE LET p == CHOOSE i \in later : \A j \in later : i <= j
             IN  SubSeq(s, 1, p - 1) \o <<x>> \o SubSeq(s, p, Len(s))

\* sorted(file_list, key=...): stable
RECURSIVE sorted(_)
sorted(file_list) ==
    IF file_list = <<>> THEN <<>>
    ELSE LET n == Len(file_list)
         IN  InsertSorted(sorted(SubSeq(file_list, 1, n - 1)), file_list[n])

\* a bug Suggestion could have: the slice of remove starts one too far
Suggestion_ShortRemove(file_list) ==
    LET sorted_files == sorted(file_list)
    IN  [keep |-> sorted_files[1], remove |-> Tail(Tail(sorted_files))]

Suggestion(file_list) ==
    LET sorted_files == sorted(file_list)
    IN  [keep |-> sorted_files[1], remove |-> Tail(sorted_files)]

suggest_cleanup(dups) == [i \in 1..Len(dups) |-> Suggestion(dups[i].val)]

(***************************************************************************)
(* DuplicateDetector.get_duplicate_summary                                 *)
(***************************************************************************)
RECURSIVE SumSizes(_)
SumSizes(fs) == IF fs = <<>> THEN 0 ELSE fs[1].size + SumSizes(Tail(fs))

\* for file in file_list[1:]: total_size += file.size
WastedInGroup(file_list) == SumSizes(Tail(file_list))

BytesPerMB == 1048576
BytesPerGB == 1073741824

\* round(total_size / unit, 2), in hundredths: the nearest, a tie to the even one
Round2(total_size, unit) ==
    LET q == (total_size * 100) \div unit
        r == (total_size * 100) % unit
    IN  IF 2 * r > unit \/ (2 * r = unit /\ q % 2 = 1) THEN q + 1 ELSE q

\* the loop over self.duplicates.values() that adds up total_size
RECURSIVE TotalSize(_)
TotalSize(dups) ==
    IF dups = <<>> THEN 0 ELSE WastedInGroup(dups[1].val) + TotalSize(Tail(dups))

\* sum(len(files) - 1 for files in self.duplicates.values())
RECURSIVE TotalDuplicates(_)
TotalDuplicates(dups) ==
    IF dups = <<>> THEN 0 ELSE (Len(dups[1].val) - 1) + TotalDuplicates(Tail(dups))

get_duplicate_summary(dups) ==
    LET total_size == TotalSize(dups)
    IN  [duplicate_groups      |-> Len(dups),
         total_duplicate_files |-> TotalDuplicates(dups),
         total_size            |-> total_size,
         total_wasted_space_mb |-> Round2(total_size, BytesPerMB),
         total_wasted_space_gb |-> Round2(total_size, BytesPerGB)]

(***************************************************************************)
(* The detector's operations as actions.                                   *)
(***************************************************************************)
\* a bug FindDuplicates could have: an empty result leaves self.duplicates alone
FindDuplicates_KeepOld(fs) ==
    /\ files' = fs
    /\ duplicates' = IF find_duplicates(fs) = <<>> THEN duplicates ELSE find_duplicates(fs)
    /\ found_before' = (found_before \/ duplicates # <<>>)
    /\ op' = "find_duplicates"
    /\ ret' = find_duplicates(fs)
    /\ UNCHANGED <<appVars, sanVars, orgVars>>

FindDuplicates(fs) ==
    /\ files' = fs
    /\ found_before' = (found_before \/ duplicates # <<>>)
    /\ duplicates' = find_duplicates(fs)
    /\ op' = "find_duplicates"
    /\ ret' = find_duplicates(fs)
    /\ UNCHANGED <<appVars, sanVars, orgVars>>

\* main.py hands suggest_cleanup the map find_duplicates returned
SuggestCleanup ==
    /\ op' = "suggest_cleanup"
    /\ ret' = suggest_cleanup(duplicates)
    /\ UNCHANGED <<appVars, files, duplicates, found_before, sanVars, orgVars>>

GetDuplicateSummary ==
    /\ op' = "get_duplicate_summary"
    /\ ret' = get_duplicate_summary(duplicates)
    /\ UNCHANGED <<appVars, files, duplicates, found_before, sanVars, orgVars>>

\* DuplicateDetector.__init__
DetectorInit ==
    /\ files = <<>>
    /\ duplicates = <<>>
    /\ found_before = FALSE
    /\ op = "init"
    /\ ret = None

(***************************************************************************)
(* FileOrganizer._sanitize_name                                            *)
(***************************************************************************)
\* invalid_chars = '<>:"/\\|?*'
InvalidChars == {"<", ">", ":", "\"", "/", "\\", "|", "?", "*"}

\* for char in invalid_chars: name = name.replace(char, '_')
ReplaceInvalid(s) == [i \in 1..Len(s) |-> IF s[i] \in InvalidChars THEN "_" ELSE s[i]]

\* name.strip(' .')
StripChars == {" ", "."}

RECURSIVE LStrip(_)
LStrip(s) == IF s = <<>> \/ s[1] \notin StripChars THEN s ELSE LStrip(Tail(s))

RECURSIVE RStrip(_)
RStrip(s) ==
    IF s = <<>> \/ s[Len(s)] \notin StripChars THEN s ELSE RStrip(SubSeq(s, 1, Len(s) - 1))

Strip(s) == RStrip(LStrip(s))

\* if len(name) > 200: name = name[:200]
NameLimit == 200

Truncate(s) == IF Len(s) > NameLimit THEN SubSeq(s, 1, NameLimit) ELSE s

_sanitize_name(s) == Truncate(Strip(ReplaceInvalid(s)))

SanitizeName ==
    /\ sanitized = None
    /\ sanitized' = _sanitize_name(name)
    /\ UNCHANGED <<appVars, name, dupVars, orgVars>>

\* no call of _sanitize_name is modelled
SanIdle ==
    /\ name = <<>>
    /\ sanitized = None

(***************************************************************************)
(* pathlib and the filesystem.                                             *)
(***************************************************************************)
\* str.split("/")
RECURSIVE SplitSlash(_)
SplitSlash(s) ==
    IF s = <<>> THEN << <<>> >>
    ELSE LET rest == SplitSlash(Tail(s))
         IN  IF s[1] = "/" THEN << <<>> >> \o rest
             ELSE << <<s[1]>> \o rest[1] >> \o Tail(rest)

\* the parts a str contributes to a path: empty and "." segments vanish
Segments(s) == SelectSeq(SplitSlash(s), LAMBDA seg : seg # <<>> /\ seg # <<".">>)

\* path / s: an absolute s replaces the path
PathJoin(path, s) ==
    IF s # <<>> /\ s[1] = "/" THEN <<Root>> \o Segments(s) ELSE path \o Segments(s)

\* str(path)
RECURSIVE JoinSlash(_)
JoinSlash(parts) ==
    IF parts = <<>> THEN <<>>
    ELSE IF Len(parts) = 1 THEN parts[1]
    ELSE parts[1] \o <<"/">> \o JoinSlash(Tail(parts))

PathStr(path) ==
    IF path # <<>> /\ path[1] = Root THEN <<"/">> \o JoinSlash(Tail(path))
    ELSE JoinSlash(path)

\* Path(s)
ParsePath(s) == PathJoin(<<>>, s)

\* path.name, path.suffix and path.stem
PathName(path) == IF Len(path) > 1 THEN path[Len(path)] ELSE <<>>

LastDot(s) ==
    LET dots == {i \in 1..Len(s) : s[i] = "."}
    IN  IF dots = {} THEN 0 ELSE CHOOSE i \in dots : \A j \in dots : j <= i

PathSuffix(path) ==
    LET n == PathName(path)
        i == LastDot(n)
    IN  IF 1 < i /\ i < Len(n) THEN SubSeq(n, i, Len(n)) ELSE <<>>

PathStem(path) ==
    LET n == PathName(path)
        i == LastDot(n)
    IN  IF 1 < i /\ i < Len(n) THEN SubSeq(n, 1, i - 1) ELSE n

\* the directory a path names once its ".." parts are followed
RECURSIVE Resolve(_)
Resolve(path) ==
    IF path = <<>> THEN <<>>
    ELSE LET n == Len(path)
             above == Resolve(SubSeq(path, 1, n - 1))
         IN  IF path[n] = <<".", ".">>
             THEN IF Len(above) > 1 THEN SubSeq(above, 1, Len(above) - 1) ELSE above
             ELSE Append(above, path[n])

Prefixes(path) == {SubSeq(path, 1, k) : k \in 1..Len(path)}

\* a bug exists() could have: only directories count
Exists_DirsOnly(path, ds, fs) ==
    /\ \A q \in Prefixes(path) \ {path} : Resolve(q) \in ds
    /\ Resolve(path) \in ds

\* path.exists()
Exists(path, ds, fs) ==
    /\ \A q \in Prefixes(path) \ {path} : Resolve(q) \in ds
    /\ Resolve(path) \in ds \cup DOMAIN fs

\* path.mkdir(parents=True, exist_ok=True): the directories afterwards, and
\* whether it raises because a regular file is in the way
\* a bug mkdir's call could have: exist_ok left at False
MkdirRaises_ExistNotOk(path, ds, fs) ==
    Resolve(path) \in ds \/ \E q \in Prefixes(path) : Resolve(q) \in DOMAIN fs

MkdirRaises(path, ds, fs) == \E q \in Prefixes(path) : Resolve(q) \in DOMAIN fs

Mkdir(path, ds) == ds \cup {Resolve(q) : q \in Prefixes(path)}

Parent(path) == SubSeq(path, 1, Len(path) - 1)

\* whether mkdir raises because a directory it must create lies in one that
\* refuses new entries
MkdirDenied(path, ds) ==
    \E q \in Prefixes(path) : Resolve(q) \notin ds /\ Parent(Resolve(q)) \in denied

\* the exception of path.mkdir(parents=True, exist_ok=True), "ok" if none
MkdirError(path, ds, fs) ==
    IF MkdirRaises(path, ds, fs) THEN "FileExistsError"
    ELSE IF MkdirDenied(path, ds) THEN "PermissionError"
    ELSE "ok"

(***************************************************************************)
(* str formatting.                                                         *)
(***************************************************************************)
DigitChar(d) == <<"0", "1", "2", "3", "4", "5", "6", "7", "8", "9">>[d + 1]

\* str(n) of the counter, n >= 0
RECURSIVE IntStr(_)
IntStr(n) == IF n < 10 THEN <<DigitChar(n)>> ELSE Append(IntStr(n \div 10), DigitChar(n % 10))

\* modified.strftime("%Y-%m"), for a year of four digits
YearMonth(d) ==
    <<DigitChar(d.year \div 1000), DigitChar((d.year \div 100) % 10),
      DigitChar((d.year \div 10) % 10), DigitChar(d.year % 10), "-",
      DigitChar(d.month \div 10), DigitChar(d.month % 10)>>

(***************************************************************************)
(* Classification records: Python dicts with str keys.                     *)
(***************************************************************************)
\* d.get(k, default)
Get(d, k, default) == IF k \in DOMAIN d THEN d[k] ELSE default

\* FileCategorizer.DEFAULT_CATEGORIES
DEFAULT_CATEGORIES ==
    {<<"D", "o", "c", "u", "m", "e", "n", "t", "s">>,
     <<"I", "m", "a", "g", "e", "s">>,
     <<"V", "i", "d", "e", "o", "s">>,
     <<"A", "u", "d", "i", "o">>,
     <<"A", "r", "c", "h", "i", "v", "e", "s">>,
     <<"C", "o", "d", "e">>,
     <<"P", "r", "o", "j", "e", "c", "t", "s">>,
     <<"D", "o", "w", "n", "l", "o", "a", "d", "s">>,
     <<"D", "e", "s", "k", "t", "o", "p">>,
     <<"S", "p", "r", "e", "a", "d", "s", "h", "e", "e", "t", "s">>,
     <<"P", "r", "e", "s", "e", "n", "t", "a", "t", "i", "o", "n", "s">>,
     <<"P", "D", "F", "s">>,
     <<"I", "n", "s", "t", "a", "l", "l", "e", "r", "s">>,
     <<"F", "o", "n", "t", "s">>,
     <<"O", "t", "h", "e", "r">>}

Other == <<"O", "t", "h", "e", "r">>

(***************************************************************************)
(* FileOrganizer._determine_destination.  The result is the path, the      *)
(* directories that exist afterwards and the exception raised, if any.     *)
(***************************************************************************)
\* dest_path = dest_path / segment; dest_path.mkdir(parents=True, exist_ok=True)
AddFolder(st, enabled, segment, fs) ==
    IF st.error # "ok" \/ ~enabled THEN st
    ELSE LET p == PathJoin(st.path, segment)
         IN  IF MkdirError(p, st.dirs, fs) # "ok"
             THEN [st EXCEPT !.error = MkdirError(p, st.dirs, fs)]
             ELSE [path |-> p, dirs |-> Mkdir(p, st.dirs), error |-> "ok"]

\* a bug _determine_destination could have: the subcategory before the date
_determine_destination_SubcategoryFirst(file, cat_info, cat_path, by_date, by_project, ds, fs) ==
    LET start   == [path |-> cat_path, dirs |-> ds, error |-> "ok"]
        project == AddFolder(start, by_project /\ Truthy(Get(cat_info, "project", None)),
                             _sanitize_name(Get(cat_info, "project", <<>>)), fs)
        subcat  == AddFolder(project, Truthy(Get(cat_info, "subcategory", None)),
                             _sanitize_name(Get(cat_info, "subcategory", <<>>)), fs)
    IN  AddFolder(subcat, by_date, YearMonth(file.modified), fs)

_determine_destination(file, cat_info, cat_path, by_date, by_project, ds, fs) ==
    LET start   == [path |-> cat_path, dirs |-> ds, error |-> "ok"]
        project == AddFolder(start, by_project /\ Truthy(Get(cat_info, "project", None)),
                             _sanitize_name(Get(cat_info, "project", <<>>)), fs)
        date    == AddFolder(project, by_date, YearMonth(file.modified), fs)
    IN  AddFolder(date, Truthy(Get(cat_info, "subcategory", None)),
                  _sanitize_name(Get(cat_info, "subcategory", <<>>)), fs)

(***************************************************************************)
(* FileOrganizer._move_file.  The result is the outcome dict and the       *)
(* regular files afterwards.                                               *)
(***************************************************************************)
\* the while loop: the first counter >= 1 whose name is free
FreeCounter(dest_dir, stem, suffix, ds, fs) ==
    LET Numbered(k) == PathJoin(dest_dir, stem \o <<"_">> \o IntStr(k) \o suffix)
        bound == Cardinality(ds) + Cardinality(DOMAIN fs) + 1
    IN  CHOOSE k \in 1..bound :
            /\ ~Exists(Numbered(k), ds, fs)
            /\ \A j \in 1..(k - 1) : Exists(Numbered(j), ds, fs)

\* a value that is not a str: the number a classification can carry
Int5 == <<"int 5">>

IsStr(x) == x \notin {None, Int5}

\* a bug _move_file could have: the original name also when a name is suggested
ChosenName_Original(source, suggested_name) == PathName(source)

\* suggested_name if suggested_name else source.name
ChosenName(source, suggested_name) ==
    IF Truthy(suggested_name) THEN suggested_name ELSE PathName(source)

\* a bug _move_file could have: the counter starts at 2
NumberedPath_FromTwo(dest_dir, first, ds, fs) ==
    PathJoin(dest_dir,
             PathStem(first) \o <<"_">>
             \o IntStr(FreeCounter(dest_dir, PathStem(first), PathSuffix(first), ds, fs) + 1)
             \o PathSuffix(first))

\* dest_dir / f"{stem}_{counter}{suffix}" when the while loop ends
NumberedPath(dest_dir, first, ds, fs) ==
    PathJoin(dest_dir,
             PathStem(first) \o <<"_">>
             \o IntStr(FreeCounter(dest_dir, PathStem(first), PathSuffix(first), ds, fs))
             \o PathSuffix(first))

\* the exception of shutil.move(str(source), str(dest_path)), "ok" if none:
\* os.rename, and when that raises OSError, copy2 followed by os.unlink
MoveError(source, final, ds, fs) ==
    IF Resolve(source) \notin DOMAIN fs \/ ~Exists(Parent(final), ds, fs)
    THEN "FileNotFoundError"
    ELSE IF Resolve(Parent(final)) \in denied THEN "PermissionError"
    ELSE IF Resolve(Parent(source)) \in denied THEN "PermissionError"
    ELSE "ok"

\* whether shutil.move raises after its copy: the source's folder refuses the
\* rename and the unlink, the destination folder takes the copy
MoveCopied(source, final, ds, fs) ==
    /\ Resolve(source) \in DOMAIN fs
    /\ Exists(Parent(final), ds, fs)
    /\ Resolve(Parent(final)) \notin denied
    /\ Resolve(Parent(source)) \in denied

\* the regular files after shutil.move(str(source), str(dest_path))
DiskAfterMove(source, final, ds, fs) ==
    LET src == Resolve(source)
        dst == Resolve(final)
    IN  IF MoveError(source, final, ds, fs) = "ok"
        THEN [q \in (DOMAIN fs \ {src}) \cup {dst} |-> IF q = dst THEN fs[src] ELSE fs[q]]
        ELSE IF MoveCopied(source, final, ds, fs)
        THEN [q \in DOMAIN fs \cup {dst} |-> IF q = dst THEN fs[src] ELSE fs[q]]
        ELSE fs

\* a bug _move_file could have: an exception of shutil.move is not caught
Caught_NotTheMove(error) == error = "AttributeError"

\* except Exception
Caught(error) == error # "ok"

_move_file(source, dest_dir, suggested_name, ds, fs) ==
    LET chosen == ChosenName(source, suggested_name)
        named == IF IsStr(chosen) THEN _sanitize_name(chosen) ELSE chosen
        first == PathJoin(dest_dir, named)
        final == IF Exists(first, ds, fs) THEN NumberedPath(dest_dir, first, ds, fs)
                 ELSE first
        error == IF ~IsStr(chosen) THEN "AttributeError"
                 ELSE MoveError(source, final, ds, fs)
        after == IF IsStr(chosen) THEN DiskAfterMove(source, final, ds, fs) ELSE fs
    IN  IF error = "ok"
        THEN [outcome |-> [source |-> PathStr(source), destination |-> PathStr(final),
                           success |-> TRUE],
              disk |-> after, dest_name |-> named, error |-> "ok"]
        ELSE IF Caught(error)
        THEN [outcome |-> [source |-> PathStr(source), destination |-> PathStr(dest_dir),
                           success |-> FALSE, error |-> error],
              disk |-> after, dest_name |-> named, error |-> "ok"]
        ELSE [outcome |-> None, disk |-> after, dest_name |-> named, error |-> error]

(***************************************************************************)
(* FileOrganizer.organize_by_category, one loop step per action.           *)
(***************************************************************************)
\* base_organize_dir
OrganizeDir == <<Root, <<"r", "o", "o", "t">>>>

\* a bug CategoryOf could have: get without the default
CategoryOf_NoDefault(cat_info) == Get(cat_info, "category", None)

\* category = cat_info.get("category", "Other")
CategoryOf(cat_info) == Get(cat_info, "category", Other)

\* the first loop: category_groups[category].append((file, cat_info))
RECURSIVE GroupByCategory(_)
GroupByCategory(cats) ==
    IF cats = <<>> THEN <<>>
    ELSE LET n == Len(cats)
             e == cats[n]
         IN  DictAppend(GroupByCategory(SubSeq(cats, 1, n - 1)), CategoryOf(e.val),
                        [file |-> e.key, cat_info |-> e.val])

\* self.moved_files = [] and the grouping loop
OrganizeStart ==
    /\ pc = "idle"
    /\ moved_files' = <<>>
    /\ category_groups' = GroupByCategory(categorizations)
    /\ group_i' = 1
    /\ file_i' = 1
    /\ pc' = "groups"
    /\ calls' = calls + 1
    /\ op' = "organize_by_category"
    /\ ret' = None
    /\ UNCHANGED <<appVars, runVars, fsVars, category_path, dest_path, raised, dest_name, returned,
                   files, duplicates, found_before, sanVars>>

\* the outer loop's head: category_path = self.organize_dir / category and its mkdir
EnterGroup ==
    /\ pc = "groups"
    /\ group_i <= Len(category_groups)
    /\ LET category == category_groups[group_i].key
       IN  IF category = None
           THEN \* Path / None
                /\ raised' = "TypeError"
                /\ pc' = "raised"
                /\ UNCHANGED <<category_path, dirs>>
           ELSE LET path == PathJoin(OrganizeDir, category)
                IN  IF MkdirError(path, dirs, disk) # "ok"
                    THEN /\ raised' = MkdirError(path, dirs, disk)
                         /\ pc' = "raised"
                         /\ UNCHANGED <<category_path, dirs>>
                    ELSE /\ category_path' = path
                         /\ dirs' = Mkdir(path, dirs)
                         /\ pc' = "files"
                         /\ UNCHANGED raised
    /\ file_i' = 1
    /\ UNCHANGED <<appVars, runVars, disk, moved_files, category_groups, dest_path, group_i,
                   logVars, dupVars, sanVars>>

\* the inner loop's body: _determine_destination, _move_file, append
MoveNext ==
    /\ pc = "files"
    /\ LET pair == category_groups[group_i].val[file_i]
           dd   == _determine_destination(pair.file, pair.cat_info, category_path,
                                          organize_by_date, organize_by_project, dirs, disk)
           mv   == _move_file(pair.file.path, dd.path,
                              Get(pair.cat_info, "suggested_name", None), dd.dirs, disk)
           last == file_i = Len(category_groups[group_i].val)
       IN  /\ dirs' = dd.dirs
           /\ IF dd.error # "ok"
              THEN /\ raised' = dd.error
                   /\ pc' = "raised"
                   /\ UNCHANGED <<dest_path, disk, moved_files, group_i, file_i, dest_name>>
              ELSE IF mv.error # "ok"
              THEN /\ raised' = mv.error
                   /\ pc' = "raised"
                   /\ dest_path' = dd.path
                   /\ dest_name' = mv.dest_name
                   /\ UNCHANGED <<disk, moved_files, group_i, file_i>>
              ELSE /\ dest_path' = dd.path
                   /\ dest_name' = mv.dest_name
                   /\ disk' = mv.disk
                   /\ moved_files' = Append(moved_files, mv.outcome)
                   /\ file_i' = IF last THEN 1 ELSE file_i + 1
                   /\ group_i' = IF last THEN group_i + 1 ELSE group_i
                   /\ pc' = IF last THEN "groups" ELSE "files"
                   /\ UNCHANGED raised
    /\ UNCHANGED <<appVars, runVars, category_groups, category_path, returned, calls,
                   dupVars, sanVars>>

\* return self.moved_files
OrganizeReturn ==
    /\ pc = "groups"
    /\ group_i > Len(category_groups)
    /\ pc' = "done"
    /\ returned' = Append(returned, [at_return |-> moved_files, object |-> moved_files])
    /\ UNCHANGED <<appVars, runVars, fsVars, moved_files, category_groups, category_path,
                   dest_path, group_i, file_i, raised, dest_name, calls, dupVars, sanVars>>

\* a bug the next call could have: self.moved_files.clear() in place of a new list
OrganizeAgain_ClearInPlace(cats) ==
    /\ pc \in {"done", "raised"}
    /\ calls < MaxCalls
    /\ calls' = calls + 1
    /\ categorizations' = cats
    /\ org_files' = [i \in 1..Len(cats) |-> cats[i].key]
    /\ moved_files' = <<>>
    /\ returned' = [k \in 1..Len(returned) |->
                       IF k = Len(returned) /\ pc = "done"
                       THEN [returned[k] EXCEPT !.object = <<>>] ELSE returned[k]]
    /\ category_groups' = GroupByCategory(cats)
    /\ group_i' = 1
    /\ file_i' = 1
    /\ pc' = "groups"
    /\ raised' = "ok"
    /\ op' = "organize_by_category"
    /\ ret' = None
    /\ UNCHANGED <<appVars, organize_by_date, organize_by_project, denied, fsVars, category_path,
                   dest_path, dest_name, files, duplicates, found_before, sanVars>>

\* a later call of organize_by_category on the same organizer:
\* self.moved_files = [] binds a new list, the grouping loop follows
OrganizeAgain(cats) ==
    /\ pc \in {"done", "raised"}
    /\ calls < MaxCalls
    /\ calls' = calls + 1
    /\ categorizations' = cats
    /\ org_files' = [i \in 1..Len(cats) |-> cats[i].key]
    /\ moved_files' = <<>>
    /\ returned' = returned
    /\ category_groups' = GroupByCategory(cats)
    /\ group_i' = 1
    /\ file_i' = 1
    /\ pc' = "groups"
    /\ raised' = "ok"
    /\ op' = "organize_by_category"
    /\ ret' = None
    /\ UNCHANGED <<appVars, organize_by_date, organize_by_project, denied, fsVars, category_path,
                   dest_path, dest_name, files, duplicates, found_before, sanVars>>

(***************************************************************************)
(* FileOrganizer.get_organization_summary                                  *)
(***************************************************************************)
\* a bug the summary could have: every outcome that has a success key counts
get_organization_summary_CountsKeys(mf) ==
    LET successful == Cardinality({i \in 1..Len(mf) : "success" \in DOMAIN mf[i]})
    IN  [total_files |-> Len(mf), successful |-> successful,
         failed |-> Len(mf) - successful, organize_directory |-> PathStr(OrganizeDir)]

get_organization_summary(mf) ==
    LET successful == Cardinality({i \in 1..Len(mf) : Get(mf[i], "success", FALSE)})
    IN  [total_files |-> Len(mf), successful |-> successful,
         failed |-> Len(mf) - successful, organize_directory |-> PathStr(OrganizeDir)]

GetOrganizationSummary ==
    /\ pc \in {"idle", "done", "raised"}
    /\ op' = "get_organization_summary"
    /\ ret' = get_organization_summary(moved_files)
    /\ UNCHANGED <<appVars, files, duplicates, found_before, sanVars, orgVars>>

\* no organizer is modelled
OrgIdle ==
    /\ categorizations = <<>>
    /\ organize_by_date = FALSE
    /\ organize_by_project = FALSE
    /\ org_files = <<>>
    /\ denied = {}
    /\ dirs = {}
    /\ disk = <<>>
    /\ moved_files = <<>>
    /\ category_groups = <<>>
    /\ category_path = None
    /\ dest_path = None
    /\ pc = "off"
    /\ group_i = 1
    /\ file_i = 1
    /\ raised = "ok"
    /\ dest_name = None
    /\ returned = <<>>
    /\ calls = 0

\* web_app.scan_results as the module binds it
ScanResultsIdle ==
    [files |-> <<>>, categorizations |-> <<>>, duplicates |-> <<>>, status |-> "idle"]

\* categorize_files: the default of batch_size
DefaultBatchSize == 20

\* an answer of the language-model provider, see FileCategorizer below
Answer(kind, keys, vals, text) == [kind |-> kind, keys |-> keys, vals |-> vals, text |-> text]

\* no provider has answered
NoAnswer == Answer("none", {}, "object", <<>>)

\* OrganizerAgent and the prompts of one scan_and_organize: where the workflow
\* stands, self.dry_run, the interactive argument, what the command line asked
\* for, and what the user typed at the duplicate and at the confirmation prompt
Cli(step, dry_run, interactive, args, dup_response, response) ==
    [step |-> step, dry_run |-> dry_run, interactive |-> interactive, args |-> args,
     dup_response |-> dup_response, response |-> response]

NoArgs == [dry_run |-> FALSE, interactive |-> FALSE, schedule |-> FALSE]

\* no command-line run is modelled
CliOff == Cli("off", FALSE, TRUE, NoArgs, None, None)

\* no categorizer is modelled
CatIdle ==
    /\ provider = "rule-based"
    /\ batch_size = DefaultBatchSize
    /\ batch_start = 0
    /\ result = NoAnswer
    /\ results = <<>>

\* no web request is modelled
WebIdle ==
    /\ scan_results = ScanResultsIdle
    /\ jobs = <<>>

\* no stepwise _move_file is modelled
LoopIdle ==
    /\ counter = 0
    /\ candidate = None

\* no thread, no command-line run, no web request, no stepwise move and no
\* categorizer is modelled
AppIdle ==
    /\ threads = <<>>
    /\ cli = CliOff
    /\ WebIdle
    /\ LoopIdle
    /\ CatIdle

\* no organize run has begun: the filesystem and where the program stands
OrgOff(ds, fs, at) ==
    /\ categorizations = <<>>
    /\ organize_by_date = FALSE
    /\ organize_by_project = FALSE
    /\ org_files = <<>>
    /\ denied = {}
    /\ dirs = ds
    /\ disk = fs
    /\ moved_files = <<>>
    /\ category_groups = <<>>
    /\ category_path = None
    /\ dest_path = None
    /\ pc = at
    /\ group_i = 1
    /\ file_i = 1
    /\ raised = "ok"
    /\ dest_name = None
    /\ returned = <<>>
    /\ calls = 0

(***************************************************************************)
(* The records a scan hands over.  The i-th record of a list is the file   *)
(* named NameAt(i), of SizeAt(i) bytes, in the directory, modified on the  *)
(* day and with the hash of the i-th choice: paths are unique in a list.   *)
(***************************************************************************)
Abc123 == <<"a", "b", "c", "1", "2", "3">>
Def456 == <<"d", "e", "f", "4", "5", "6">>

NameAt(i) == [j \in 1..i |-> "f"]
SizeAt(i) == i
ScanDirs == {<<Root>>, <<Root, <<"d">>>>}

ScanRecord(i, c) ==
    FileInfo(Append(c.dir, NameAt(i)), SizeAt(i),
             [year |-> 2024, month |-> 3, day |-> c.day], c.hash)

ScanLists(Choices, n) ==
    {[i \in 1..Len(cs) |-> ScanRecord(i, cs[i])] : cs \in SeqsUpTo(Choices, n)}

\* lists of up to n records that differ in the hashes: absent, empty, and two digests
DetectInputs(n) ==
    ScanLists([dir : {<<Root>>}, day : {1}, hash : {None, <<>>, Abc123, Def456}], n)

\* lists of up to n hashed records that differ in depth and modification day
RankInputs(n) ==
    ScanLists([dir : ScanDirs, day : 1..n, hash : {Abc123, Def456}], n)

(***************************************************************************)
(* SpecDetect: one detector, any sequence of its operations, each          *)
(* find_duplicates on any list of DetectInputs.                            *)
(***************************************************************************)
NextDetect ==
    \/ \E fs \in DetectInputs(MaxFiles) : FindDuplicates(fs)
    \/ SuggestCleanup
    \/ GetDuplicateSummary

InitDetect ==
    /\ DetectorInit
    /\ SanIdle
    /\ AppIdle
    /\ OrgIdle

SpecDetect == InitDetect /\ [][NextDetect]_vars

(***************************************************************************)
(* SpecRank: a scan of RankInputs, then the detector's operations on it.   *)
(***************************************************************************)
InitRank ==
    /\ SanIdle
    /\ AppIdle
    /\ OrgIdle
    /\ files \in RankInputs(MaxFiles)
    /\ duplicates = <<>>
    /\ found_before = FALSE
    /\ op = "init"
    /\ ret = None

NextRank ==
    \/ FindDuplicates(files)
    \/ SuggestCleanup
    \/ GetDuplicateSummary

SpecRank == InitRank /\ [][NextRank]_vars

(***************************************************************************)
(* The organizer's inputs.  Missing marks a key a dict does not have.      *)
(***************************************************************************)
Missing == <<"Missing">>

MakeDict(r) == [k \in {j \in DOMAIN r : r[j] # Missing} |-> r[k]]

\* list(d.keys())
Keys(d) == [i \in 1..Len(d) |-> d[i].key]

Images      == <<"I", "m", "a", "g", "e", "s">>
Screenshots == <<"S", "c", "r", "e", "e", "n", "s", "h", "o", "t", "s">>
Memes       == <<"M", "e", "m", "e", "s">>

SourceDir == <<Root, <<"s">>>>

SourceName(i) == <<<<"a", "b", "c", "d", "e", "f">>[i], ".", "t", "x", "t">>

ModifiedAt(i) ==
    IF i % 2 = 1 THEN [year |-> 2024, month |-> 3, day |-> 15]
    ELSE [year |-> 2023, month |-> 12, day |-> 1]

\* the i-th file of a run: /s/a.txt, /s/b.txt, ...
SourceFile(i) == FileInfo(Append(SourceDir, SourceName(i)), SizeAt(i), ModifiedAt(i), None)

\* classifications whose category is missing, null, empty, known or unknown
RunCatInfos ==
    {MakeDict([category |-> c, subcategory |-> sc]) :
        c \in {Missing, None, <<>>, Images, Other, Memes}, sc \in {Missing, Screenshots}}

RunInputs(n) ==
    {[i \in 1..Len(cs) |-> [key |-> SourceFile(i), val |-> cs[i]]] :
        cs \in SeqsUpTo(RunCatInfos, n)}

\* classifications for _determine_destination: project and subcategory missing,
\* null, empty, plain, in need of sanitizing, and sanitized to nothing
ResolveCatInfos ==
    {MakeDict([category |-> Images, project |-> p, subcategory |-> sc]) :
        p  \in {Missing, None, <<>>, <<"T", "a", "x">>, <<" ", "a", "/", "b", ".">>, <<".", ".">>},
        sc \in {Missing, None, Screenshots, <<"Q", "?">>, <<".">>}}

(***************************************************************************)
(* Spec: one organize_by_category run on the files /s/a.txt, ... with any  *)
(* classifications of RunInputs, on a filesystem that holds those files.   *)
(***************************************************************************)
Init ==
    /\ DetectorInit
    /\ SanIdle
    /\ AppIdle
    /\ categorizations \in RunInputs(MaxBatch)
    /\ organize_by_date \in BOOLEAN
    /\ organize_by_project \in BOOLEAN
    /\ org_files = Keys(categorizations)
    /\ denied = {}
    /\ dirs = Prefixes(SourceDir)
    /\ disk = [q \in {categorizations[i].key.path : i \in 1..Len(categorizations)} |->
                  PathName(q)]
    /\ moved_files = <<>>
    /\ category_groups = <<>>
    /\ category_path = None
    /\ dest_path = None
    /\ pc = "idle"
    /\ group_i = 1
    /\ file_i = 1
    /\ raised = "ok"
    /\ dest_name = None
    /\ returned = <<>>
    /\ calls = 0

Next ==
    \/ OrganizeStart
    \/ EnterGroup
    \/ MoveNext
    \/ OrganizeReturn

Spec == Init /\ [][Next]_vars

(***************************************************************************)
(* SpecResolve: _determine_destination for one file under the category     *)
(* root /root/Images, which organize_by_category has created.              *)
(***************************************************************************)
DetermineDestination ==
    /\ pc = "resolve"
    /\ calls < MaxCalls
    /\ calls' = calls + 1
    /\ LET pair == categorizations[1]
           dd   == _determine_destination(pair.key, pair.val, category_path,
                                          organize_by_date, organize_by_project, dirs, disk)
       IN  /\ dirs' = dd.dirs
           /\ raised' = dd.error
           /\ dest_path' = IF dd.error = "ok" THEN dd.path ELSE dest_path
    /\ UNCHANGED <<appVars, runVars, disk, moved_files, category_groups, category_path, pc,
                   group_i, file_i, dest_name, returned, dupVars, sanVars>>

InitResolve ==
    /\ DetectorInit
    /\ SanIdle
    /\ AppIdle
    /\ \E i \in 1..2, c \in ResolveCatInfos :
           categorizations = <<[key |-> SourceFile(i), val |-> c]>>
    /\ organize_by_date \in BOOLEAN
    /\ organize_by_project \in BOOLEAN
    /\ org_files = Keys(categorizations)
    /\ denied = {}
    /\ category_path = PathJoin(OrganizeDir, Images)
    /\ dirs = Prefixes(PathJoin(OrganizeDir, Images))
    /\ disk = <<>>
    /\ moved_files = <<>>
    /\ category_groups = <<>>
    /\ dest_path = None
    /\ pc = "resolve"
    /\ group_i = 1
    /\ file_i = 1
    /\ raised = "ok"
    /\ dest_name = None
    /\ returned = <<>>
    /\ calls = 0

NextResolve == DetermineDestination

SpecResolve == InitResolve /\ [][NextResolve]_vars

(***************************************************************************)
(* SpecUntrusted: one organize_by_category run whose classification text   *)
(* is untrusted and whose files argument is any list of the scanned files, *)
(* on a filesystem that may hold an obstacle under the organize root.      *)
(***************************************************************************)
DotDotX == <<".", ".", "/", "x">>
SlashT  == <<"/", "t">>
DotDotY == <<".", ".", "/", "y">>
DotDotE == <<".", ".", "/", "e">>

\* classifications whose category, subcategory and suggested name carry
\* separators and ".."
UntrustedCatInfos ==
    {MakeDict([category |-> c, subcategory |-> sc, suggested_name |-> n]) :
        c \in {Images, DotDotX, SlashT}, sc \in {Missing, DotDotY}, n \in {Missing, DotDotE}}

UntrustedInputs(n) ==
    {[i \in 1..Len(cs) |-> [key |-> SourceFile(i), val |-> cs[i]]] :
        cs \in SeqsUpTo(UntrustedCatInfos, n)}

\* the lists of distinct scanned files a caller can pass as files
FileLists(n) ==
    {[i \in 1..Len(js) |-> SourceFile(js[i])] :
        js \in {t \in SeqsUpTo(1..n, n) : \A a, b \in 1..Len(t) : a # b => t[a] # t[b]}}

ImagesDir == PathJoin(OrganizeDir, Images)

\* what is in the way: nothing, a regular file where the month's folder
\* belongs, or a category folder that refuses new entries
Obstacles == {"none", "file", "denied"}

InitUntrusted ==
    /\ DetectorInit
    /\ SanIdle
    /\ AppIdle
    /\ categorizations \in UntrustedInputs(MaxBatch)
    /\ organize_by_date \in BOOLEAN
    /\ organize_by_project = FALSE
    /\ org_files \in FileLists(MaxBatch)
    /\ \E obstacle \in Obstacles :
        /\ denied = IF obstacle = "denied" THEN {ImagesDir} ELSE {}
        /\ dirs = Prefixes(SourceDir) \cup Prefixes(ImagesDir)
        /\ disk = [q \in {categorizations[i].key.path : i \in 1..Len(categorizations)}
                         \cup (IF obstacle = "file"
                               THEN {Append(ImagesDir, YearMonth(ModifiedAt(1)))} ELSE {})
                   |-> PathName(q)]
    /\ moved_files = <<>>
    /\ category_groups = <<>>
    /\ category_path = None
    /\ dest_path = None
    /\ pc = "idle"
    /\ group_i = 1
    /\ file_i = 1
    /\ raised = "ok"
    /\ dest_name = None
    /\ returned = <<>>
    /\ calls = 0

SpecUntrusted == InitUntrusted /\ [][Next]_vars

(***************************************************************************)
(* SpecMove: _move_file for the file /s/a.txt into /root/Images, called up *)
(* to MaxCalls times with the same arguments.  The source may have         *)
(* vanished, the folder may refuse new entries, and any of the names the   *)
(* move can pick may be occupied.                                          *)
(***************************************************************************)
BDotT  == <<"b", ".", "t">>
Dots   == <<".", ".", ".">>

\* name, name_1, ..., name_n for a stem and an extension
Numbered(stem, ext, n) == {stem \o ext} \cup {stem \o <<"_">> \o IntStr(k) \o ext : k \in 1..n}

\* the names that can be occupied in the destination folder beforehand
TakenNames(n) ==
    Numbered(<<"a">>, <<".", "t", "x", "t">>, n) \cup Numbered(<<"b">>, <<".", "t">>, 1)
    \cup {Images \o <<"_", "1">>}

\* suggested_name: missing, null, empty, a name, one sanitized to nothing, a number
MoveCatInfos ==
    {MakeDict([category |-> Images, suggested_name |-> n]) :
        n \in {Missing, None, <<>>, BDotT, Dots, Int5}}

\* the content of the regular file at a path: distinct for distinct files
ContentAt(q) == PathStr(q)

MoveFile ==
    /\ pc = "move"
    /\ calls < MaxCalls
    /\ calls' = calls + 1
    /\ LET pair == categorizations[1]
           mv   == _move_file(pair.key.path, dest_path,
                              Get(pair.val, "suggested_name", None), dirs, disk)
       IN  /\ disk' = mv.disk
           /\ dest_name' = mv.dest_name
           /\ raised' = mv.error
           /\ op' = "_move_file"
           /\ ret' = mv.outcome
    /\ UNCHANGED <<appVars, runVars, dirs, moved_files, category_groups, category_path, dest_path,
                   pc, group_i, file_i, returned, files, duplicates, found_before, sanVars>>

InitMove ==
    /\ DetectorInit
    /\ SanIdle
    /\ AppIdle
    /\ \E c \in MoveCatInfos : categorizations = <<[key |-> SourceFile(1), val |-> c]>>
    /\ organize_by_date = FALSE
    /\ organize_by_project = FALSE
    /\ org_files = Keys(categorizations)
    /\ denied \in {{}, {ImagesDir}}
    /\ dirs = Prefixes(SourceDir) \cup Prefixes(ImagesDir)
    /\ \E taken \in SUBSET TakenNames(MaxTaken), present \in BOOLEAN :
           disk = [q \in {Append(ImagesDir, n) : n \in taken}
                         \cup (IF present THEN {SourceFile(1).path} ELSE {})
                   |-> ContentAt(q)]
    /\ moved_files = <<>>
    /\ category_groups = <<>>
    /\ category_path = ImagesDir
    /\ dest_path = ImagesDir
    /\ pc = "move"
    /\ group_i = 1
    /\ file_i = 1
    /\ raised = "ok"
    /\ dest_name = None
    /\ returned = <<>>
    /\ calls = 0

NextMove == MoveFile

SpecMove == InitMove /\ [][NextMove]_vars

(***************************************************************************)
(* SpecRuns: up to MaxCalls organize_by_category runs on one organizer,    *)
(* each followed by any number of get_organization_summary calls.  A later *)
(* run is given the same classifications again, or those whose file is     *)
(* still where the scan found it.                                          *)
(***************************************************************************)
NDotT == <<"n", ".", "t">>

\* classifications of two known categories, with or without one suggested name
RunsCatInfos ==
    {MakeDict([category |-> c, suggested_name |-> n]) :
        c \in {Images, Other}, n \in {Missing, NDotT}}

RunsInputs(n) ==
    {[i \in 1..Len(cs) |-> [key |-> SourceFile(i), val |-> cs[i]]] :
        cs \in SeqsUpTo(RunsCatInfos, n)}

\* the classifications of the files that still exist: file_path.exists()
StillThere(cats, fs) == SelectSeq(cats, LAMBDA e : e.key.path \in DOMAIN fs)

InitRuns ==
    /\ DetectorInit
    /\ SanIdle
    /\ AppIdle
    /\ categorizations \in RunsInputs(MaxBatch)
    /\ organize_by_date \in BOOLEAN
    /\ organize_by_project = FALSE
    /\ org_files = Keys(categorizations)
    /\ denied = {}
    /\ dirs = Prefixes(SourceDir)
    /\ disk = [q \in {categorizations[i].key.path : i \in 1..Len(categorizations)} |->
                  ContentAt(q)]
    /\ moved_files = <<>>
    /\ category_groups = <<>>
    /\ category_path = None
    /\ dest_path = None
    /\ pc = "idle"
    /\ group_i = 1
    /\ file_i = 1
    /\ raised = "ok"
    /\ dest_name = None
    /\ returned = <<>>
    /\ calls = 0

NextRuns ==
    \/ OrganizeStart
    \/ EnterGroup
    \/ MoveNext
    \/ OrganizeReturn
    \/ \E cats \in {categorizations, StillThere(categorizations, disk)} : OrganizeAgain(cats)
    \/ GetOrganizationSummary

SpecRuns == InitRuns /\ [][NextRuns]_vars

(***************************************************************************)
(* Claims about the duplicate engine.                                      *)
(***************************************************************************)
Count(s, x) == Cardinality({i \in 1..Len(s) : s[i] = x})

\* C1: find_duplicates never puts two records with different hashes in one
\* group, and never puts a record whose hash is None or empty in any group.
C1_GroupsShareOneHash ==
    \A i \in 1..Len(duplicates) :
        \A f \in Range(duplicates[i].val), g \in Range(duplicates[i].val) :
            /\ f.hash = g.hash
            /\ f.hash # None
            /\ f.hash # <<>>
            /\ f \in Range(files)

\* a group was formed from a list that also held a record whose hash is None
\* or empty
C1_Witness ==
    /\ duplicates # <<>>
    /\ \E f \in Range(files) : f.hash = None \/ f.hash = <<>>

\* the hashes carried by at least two records of fs
SharedHashes(fs) ==
    {h \in {fs[i].hash : i \in 1..Len(fs)} :
        /\ h # None
        /\ h # <<>>
        /\ Cardinality({i \in 1..Len(fs) : fs[i].hash = h}) >= 2}

WithHash(fs, h) == SelectSeq(fs, LAMBDA f : f.hash = h)

\* C2: the result has a key h exactly when at least 2 input records carry the
\* non-empty hash h; the group of h is the input records with hash h, in
\* input order; every group has at least 2 members.
C2_GroupsAreHashClasses ==
    /\ DictKeys(duplicates) = SharedHashes(files)
    /\ Len(duplicates) = Cardinality(SharedHashes(files))
    /\ \A i \in 1..Len(duplicates) :
           /\ duplicates[i].val = WithHash(files, duplicates[i].key)
           /\ Len(duplicates[i].val) >= 2

\* a group whose members are not neighbours in the input: the first and third
C2_Witness ==
    /\ Len(files) = 3
    /\ files[2].hash \notin {None, <<>>, files[1].hash}
    /\ Len(duplicates) = 1
    /\ duplicates[1].val = <<files[1], files[3]>>

\* C3: every suggestion has one keep and len(group)-1 remove entries, keep is
\* a member of the group, and keep with remove is a permutation of the group.
C3_KeepAndRemovePartitionGroup ==
    op = "suggest_cleanup" =>
        /\ Len(ret) = Len(duplicates)
        /\ \A i \in 1..Len(ret) :
               LET group  == duplicates[i].val
                   ranked == <<ret[i].keep>> \o ret[i].remove
               IN  /\ Len(ret[i].remove) = Len(group) - 1
                   /\ ret[i].keep \in Range(group)
                   /\ \A f \in Range(group) \cup Range(ranked) :
                          Count(ranked, f) = Count(group, f)

\* a suggestion for a group of three
C3_Witness ==
    /\ op = "suggest_cleanup"
    /\ \E i \in 1..Len(ret) : Len(ret[i].remove) = 2

\* the claimed ranking: deeper first, and at equal depth the earlier modified first
Depth(f) == Len(f.path)

Earlier(a, b) ==
    a.year * 10000 + a.month * 100 + a.day < b.year * 10000 + b.month * 100 + b.day

RankedBefore(f, g) ==
    \/ Depth(f) > Depth(g)
    \/ Depth(f) = Depth(g) /\ Earlier(f.modified, g.modified)

IndexIn(s, x) == CHOOSE i \in 1..Len(s) : s[i] = x

RECURSIVE RemovedBytes(_)
RemovedBytes(suggestions) ==
    IF suggestions = <<>> THEN 0
    ELSE SumSizes(suggestions[1].remove) + RemovedBytes(Tail(suggestions))

\* C5: the wasted-space byte total of get_duplicate_summary is the sum of the
\* sizes of the members suggest_cleanup puts in remove; 0 for an empty map.
C5_WastedIsRemovedBytes ==
    op = "get_duplicate_summary" =>
        ret.total_size = RemovedBytes(suggest_cleanup(duplicates))

\* C6: get_duplicate_summary reflects only the most recent find_duplicates:
\* duplicate_groups is its number of groups, total_duplicate_files the sum of
\* (group size - 1); both are 0 before any call and after a call that found
\* nothing.
C6_SummaryOfLatestCall ==
    op = "get_duplicate_summary" =>
        LET shared == SharedHashes(files)
            grouped == {i \in 1..Len(files) : files[i].hash \in shared}
        IN  /\ ret.duplicate_groups = Cardinality(shared)
            /\ ret.total_duplicate_files = Cardinality(grouped) - Cardinality(shared)

\* a summary of zeros after a call that found nothing, the call before it
\* having found duplicates
C6_Witness ==
    /\ op = "get_duplicate_summary"
    /\ found_before
    /\ files # <<>>
    /\ ret.duplicate_groups = 0
    /\ ret.total_duplicate_files = 0

(***************************************************************************)
(* SpecSanitize: _sanitize_name on one name.  A name is up to MaxEdge      *)
(* characters, one character more, a run of "a" and up to MaxEdge          *)
(* characters: the runs take names to the limit of 200 and beyond it.      *)
(***************************************************************************)
EdgeChars == {"a", " ", "."}

Run(n) == [i \in 1..n |-> "a"]

RunLengths == {0, NameLimit - 2, NameLimit}

SanitizeInputs(edge) ==
    {h \o <<m>> \o Run(n) \o t :
        h \in SeqsUpTo(EdgeChars, edge), m \in InvalidChars \cup {"a"},
        n \in RunLengths, t \in SeqsUpTo(EdgeChars, edge)}

InitSanitize ==
    /\ DetectorInit
    /\ OrgIdle
    /\ AppIdle
    /\ name \in SanitizeInputs(MaxEdge)
    /\ sanitized = None

NextSanitize == SanitizeName

SpecSanitize == InitSanitize /\ [][NextSanitize]_vars

(***************************************************************************)
(* Claims about the organizer.                                             *)
(***************************************************************************)
\* C7: the output of _sanitize_name contains none of < > : " / \ | ? *, does
\* not start or end with a space or a dot, and has length at most 200.
C7_SanitizedIsSafe ==
    sanitized # None =>
        /\ \A i \in 1..Len(sanitized) :
               sanitized[i] \notin {"<", ">", ":", "\"", "/", "\\", "|", "?", "*"}
        /\ sanitized # <<>> =>
               /\ sanitized[1] \notin {" ", "."}
               /\ sanitized[Len(sanitized)] \notin {" ", "."}
        /\ Len(sanitized) <= 200

IsPrefix(p, q) == Len(p) <= Len(q) /\ SubSeq(q, 1, Len(p)) = p

\* the folder a piece of text contributes: none when disabled or empty
Folder(enabled, text) == IF enabled /\ text # <<>> THEN <<text>> ELSE <<>>

Present(info, k) == k \in DOMAIN info /\ info[k] # None /\ info[k] # <<>>

ExpectedDestination ==
    LET file == categorizations[1].key
        info == categorizations[1].val
        project == IF Present(info, "project") THEN _sanitize_name(info["project"]) ELSE <<>>
        subcat  == IF Present(info, "subcategory") THEN _sanitize_name(info["subcategory"])
                   ELSE <<>>
    IN  category_path
        \o Folder(organize_by_project /\ Present(info, "project"), project)
        \o Folder(organize_by_date, YearMonth(file.modified))
        \o Folder(Present(info, "subcategory"), subcat)

FallbackDir == Append(OrganizeDir, <<"O", "t", "h", "e", "r">>)

\* C9: a file whose classification has no category field (an empty record
\* included) is grouped under Other and moved under organizeRoot/Other, and
\* organize_by_category does not raise at its group.
C9_MissingCategoryFallsBack ==
    /\ (pc = "raised" /\ raised # "ok") =>
           category_groups[group_i].key # <<"O", "t", "h", "e", "r">>
    /\ \A i \in 1..Len(categorizations) :
           "category" \notin DOMAIN categorizations[i].val =>
               /\ pc \notin {"idle", "resolve"} =>
                      \E g \in 1..Len(category_groups) :
                          /\ category_groups[g].key = <<"O", "t", "h", "e", "r">>
                          /\ \E j \in 1..Len(category_groups[g].val) :
                                 category_groups[g].val[j].file = categorizations[i].key
               /\ \A o \in Range(moved_files) :
                      o.source = PathStr(categorizations[i].key.path) =>
                          /\ o.success
                          /\ IsPrefix(FallbackDir, ParsePath(o.destination))
                          /\ ParsePath(o.destination) \in DOMAIN disk
               /\ pc = "done" =>
                      \E o \in Range(moved_files) :
                          o.source = PathStr(categorizations[i].key.path)

\* a finished run whose first file had an entirely empty classification
C9_Witness ==
    /\ pc = "done"
    /\ categorizations # <<>>
    /\ DOMAIN categorizations[1].val = {}
    /\ moved_files[1].success
    /\ IsPrefix(FallbackDir, ParsePath(moved_files[1].destination))

\* C10: whatever the category text, organize_by_category does not crash and
\* every top-level directory it creates or uses under organizeRoot is named
\* after a known category or Other.
C10_OnlyKnownCategoryFolders ==
    /\ raised = "ok"
    /\ \A d \in dirs :
           (IsPrefix(OrganizeDir, d) /\ Len(d) = Len(OrganizeDir) + 1) =>
               d[Len(d)] \in DEFAULT_CATEGORIES
    /\ \A o \in Range(moved_files) :
           LET p == ParsePath(o.destination)
           IN  o.success =>
                   /\ IsPrefix(OrganizeDir, p)
                   /\ Len(p) > Len(OrganizeDir) + 1
                   /\ p[Len(OrganizeDir) + 1] \in DEFAULT_CATEGORIES


(***************************************************************************)
(* Claims about a run on untrusted input.                                  *)
(***************************************************************************)
\* the directory or file a str names, its ".." followed
Lands(text) == Resolve(ParsePath(text))

\* C11: every successful move outcome has a destination inside the organize
\* root, whatever separators and ".." the classification text holds.
C11_DestinationsInsideRoot ==
    \A i \in 1..Len(moved_files) :
        moved_files[i].success =>
            /\ IsPrefix(OrganizeDir, Lands(moved_files[i].destination))
            /\ Len(Lands(moved_files[i].destination)) > Len(OrganizeDir)


\* C16: organize_by_category always returns, with exactly one outcome per
\* classified file, whatever filesystem error a single file meets.
C16_RunReturnsCompleteList ==
    /\ pc # "raised"
    /\ pc = "done" => Len(moved_files) = Len(categorizations)

\* the sources of the outcomes, in the order recorded
Attempted == [i \in 1..Len(moved_files) |-> moved_files[i].source]

\* where a source stands in the files argument, 0 if it is not in it
PlaceInFiles(source) ==
    LET at == {i \in 1..Len(org_files) : PathStr(org_files[i].path) = source}
    IN  IF at = {} THEN 0 ELSE CHOOSE i \in at : TRUE

\* the category group a source was put in
GroupOf(source) ==
    LET at == {i \in 1..Len(categorizations) : PathStr(categorizations[i].key.path) = source}
    IN  CategoryOf(categorizations[CHOOSE i \in at : TRUE].val)

C12_SecondCallIsNoOp ==
    [][(calls >= 1 /\ raised = "ok" /\ calls' = calls + 1)
          => (dest_path' = dest_path /\ raised' = "ok" /\ dirs' = dirs)]_vars

\* a second call was made after a first one that created folders
C12_Witness ==
    /\ pc = "resolve"
    /\ calls = 2
    /\ raised = "ok"
    /\ dest_path # None
    /\ Len(dest_path) > Len(category_path)
    /\ dest_path \in dirs


(***************************************************************************)
(* Claims about _move_file.                                                *)
(***************************************************************************)
MovedInfo == categorizations[1].val
MovedFile == categorizations[1].key

\* a suggested name is provided and non-empty
Suggested(info) ==
    /\ "suggested_name" \in DOMAIN info
    /\ info["suggested_name"] # None
    /\ info["suggested_name"] # <<>>

Occupied(path) == path \in dirs \cup DOMAIN disk

\* C14: a successful move ends at destinationDir/name.ext if that was free,
\* and otherwise at destinationDir/name_k.ext for the least k >= 1 whose path
\* was free.
C14_LeastFreeAlternative ==
    [][(pc = "move" /\ calls' = calls + 1 /\ ret'.success) =>
          LET first  == PathJoin(dest_path, dest_name')
              Alt(k) == PathJoin(dest_path, PathStem(first) \o <<"_">> \o IntStr(k)
                                            \o PathSuffix(first))
              final  == ParsePath(ret'.destination)
          IN  IF ~Occupied(first) THEN final = first
              ELSE \E k \in 1..(MaxTaken + 2) :
                      /\ final = Alt(k)
                      /\ ~Occupied(Alt(k))
                      /\ \A j \in 1..(k - 1) : Occupied(Alt(j))]_vars

ATxt  == <<"a", ".", "t", "x", "t">>
A1Txt == <<"a", "_", "1", ".", "t", "x", "t">>
A2Txt == <<"a", "_", "2", ".", "t", "x", "t">>

\* Scenario D: a.txt moved into a folder that held a.txt and a_1.txt
C14_Witness ==
    /\ op = "_move_file"
    /\ ret.success
    /\ ret.source = PathStr(Append(SourceDir, ATxt))
    /\ ret.destination = PathStr(Append(ImagesDir, A2Txt))
    /\ disk[Append(ImagesDir, ATxt)] = ContentAt(Append(ImagesDir, ATxt))
    /\ disk[Append(ImagesDir, A1Txt)] = ContentAt(Append(ImagesDir, A1Txt))
    /\ disk[Append(ImagesDir, A2Txt)] = ContentAt(Append(SourceDir, ATxt))

\* C15: no exception leaves _move_file; a failed call returns success=false
\* with the source path and an error text, and success=true is returned only
\* when the file is at the destination and no longer at the source.
C15_MoveNeverRaises ==
    op = "_move_file" =>
        /\ raised = "ok"
        /\ ret.success \in BOOLEAN
        /\ ret.source = PathStr(MovedFile.path)
        /\ ret.success =>
              /\ Lands(ret.destination) \in DOMAIN disk
              /\ disk[Lands(ret.destination)] = ContentAt(MovedFile.path)
              /\ MovedFile.path \notin DOMAIN disk
        /\ ~ret.success =>
              /\ ret.error \notin {"", "ok"}
              /\ ret.destination = PathStr(dest_path)

\* a move refused by the destination folder, reported and not raised
C15_Witness ==
    /\ op = "_move_file"
    /\ ~ret.success
    /\ ret.error = "PermissionError"
    /\ MovedFile.path \in DOMAIN disk
    /\ raised = "ok"


(***************************************************************************)
(* Claims about runs on one organizer.                                     *)
(***************************************************************************)
\* s is t, or t with one element added at the end
ExtendsByAtMostOne(s, t) ==
    \/ s = t
    \/ Len(s) = Len(t) + 1 /\ SubSeq(s, 1, Len(t)) = t

\* C18: within a run every step leaves the outcome list as it was or adds one
\* outcome at its end, and no step changes a list an earlier run returned.
C18_OutcomesAppendOnly ==
    [][/\ pc \in {"groups", "files"} => ExtendsByAtMostOne(moved_files', moved_files)
       /\ \A k \in 1..Len(returned) :
             /\ k <= Len(returned')
             /\ returned'[k].object = returned[k].at_return]_vars

\* a second run has recorded outcomes after a first one returned a list
C18_Witness ==
    /\ calls = 2
    /\ pc = "done"
    /\ Len(returned) = 2
    /\ Len(returned[1].object) = 2
    /\ returned[1].object[1].success
    /\ Len(moved_files) = 2
    /\ ~moved_files[1].success

\* C19: the summary counts the outcome list of the most recent run only:
\* total_files is its length (the number of classified files once the run has
\* returned), successful and failed count its success=true and success=false
\* outcomes, and they add up to total_files.
C19_SummaryOfLatestRun ==
    op = "get_organization_summary" =>
        /\ ret.total_files = Len(moved_files)
        /\ pc = "done" => ret.total_files = Len(categorizations)
        /\ ret.successful = Cardinality({i \in 1..Len(moved_files) : moved_files[i].success})
        /\ ret.failed = Cardinality({i \in 1..Len(moved_files) : ~moved_files[i].success})
        /\ ret.successful + ret.failed = ret.total_files

\* the summary of a second run in which every move failed, after a first run
\* in which every move succeeded
C19_Witness ==
    /\ op = "get_organization_summary"
    /\ calls = 2
    /\ pc = "done"
    /\ returned[1].object # <<>>
    /\ \A i \in 1..Len(returned[1].object) : returned[1].object[i].success
    /\ ret.total_files = 2
    /\ ret.failed = 2
    /\ ret.successful = 0

\* C20: the successful outcomes of one run have pairwise distinct final paths.
C20_DistinctDestinations ==
    \A i, j \in 1..Len(moved_files) :
        (i < j /\ moved_files[i].success /\ moved_files[j].success)
            => Lands(moved_files[i].destination) # Lands(moved_files[j].destination)

\* two files of one run bound for the same folder under the same name
C20_Witness ==
    /\ Len(moved_files) = 2
    /\ moved_files[1].success
    /\ moved_files[2].success
    /\ moved_files[1].destination = PathStr(Append(PathJoin(OrganizeDir, Images), NDotT))
    /\ moved_files[2].destination =
           PathStr(Append(PathJoin(OrganizeDir, Images), <<"n", "_", "1", ".", "t">>))

(***************************************************************************)
(* SpecOverlap: MaxThreads /api/organize requests have been accepted and   *)
(* each has its own do_organize thread on the one shared agent.  A thread  *)
(* runs organize_files: organize_by_category, one loop step at a time, and *)
(* then get_organization_summary.  The locals of a run are per thread;     *)
(* self.moved_files and the filesystem are shared.                         *)
(***************************************************************************)
NewThread ==
    [pc |-> "new", category_groups |-> <<>>, category_path |-> None, group_i |-> 1,
     file_i |-> 1, own |-> <<>>, result |-> None, summary |-> None]

\* do_organize rebuilds the records of the files that still exist, then
\* organize_by_category binds self.moved_files to a new list and groups
ThreadStart(t) ==
    /\ pc = "threads"
    /\ threads[t].pc = "new"
    /\ moved_files' = <<>>
    /\ threads' = [threads EXCEPT
                      ![t].category_groups = GroupByCategory(StillThere(categorizations, disk)),
                      ![t].pc = "groups"]
    /\ UNCHANGED <<dupVars, sanVars, runVars, fsVars, category_groups, category_path,
                   dest_path, pc, group_i, file_i, raised, logVars,
                   cli, webVars, loopVars, catVars>>

\* the outer loop's head in thread t
ThreadEnterGroup(t) ==
    /\ threads[t].pc = "groups"
    /\ threads[t].group_i <= Len(threads[t].category_groups)
    /\ LET path == PathJoin(OrganizeDir, threads[t].category_groups[threads[t].group_i].key)
       IN  IF MkdirError(path, dirs, disk) # "ok"
           THEN /\ threads' = [threads EXCEPT ![t].pc = "failed"]
                /\ UNCHANGED dirs
           ELSE /\ threads' = [threads EXCEPT ![t].category_path = path,
                                              ![t].file_i = 1,
                                              ![t].pc = "files"]
                /\ dirs' = Mkdir(path, dirs)
    /\ UNCHANGED <<dupVars, sanVars, runVars, disk, moved_files, category_groups,
                   category_path, dest_path, pc, group_i, file_i, raised, logVars,
                   cli, webVars, loopVars, catVars>>

\* the inner loop's body in thread t: the outcome is appended to the list
\* self.moved_files is bound to when the append runs
ThreadMoveNext(t) ==
    /\ threads[t].pc = "files"
    /\ LET th   == threads[t]
           pair == th.category_groups[th.group_i].val[th.file_i]
           dd   == _determine_destination(pair.file, pair.cat_info, th.category_path,
                                          organize_by_date, organize_by_project, dirs, disk)
           mv   == _move_file(pair.file.path, dd.path,
                              Get(pair.cat_info, "suggested_name", None), dd.dirs, disk)
           last == th.file_i = Len(th.category_groups[th.group_i].val)
       IN  /\ dirs' = dd.dirs
           /\ IF dd.error # "ok" \/ mv.error # "ok"
              THEN /\ threads' = [threads EXCEPT ![t].pc = "failed"]
                   /\ UNCHANGED <<disk, moved_files>>
              ELSE /\ disk' = mv.disk
                   /\ moved_files' = Append(moved_files, mv.outcome)
                   /\ threads' = [threads EXCEPT
                                     ![t].own = Append(@, mv.outcome),
                                     ![t].file_i = IF last THEN 1 ELSE @ + 1,
                                     ![t].group_i = IF last THEN @ + 1 ELSE @,
                                     ![t].pc = IF last THEN "groups" ELSE "files"]
    /\ UNCHANGED <<dupVars, sanVars, runVars, category_groups, category_path, dest_path,
                   pc, group_i, file_i, raised, logVars,
                   cli, webVars, loopVars, catVars>>

\* return self.moved_files in thread t
ThreadReturn(t) ==
    /\ threads[t].pc = "groups"
    /\ threads[t].group_i > Len(threads[t].category_groups)
    /\ threads' = [threads EXCEPT ![t].result = moved_files, ![t].pc = "returned"]
    /\ UNCHANGED <<dupVars, sanVars, orgVars, cli, webVars, loopVars, catVars>>

\* summary = self.organizer.get_organization_summary() in thread t
ThreadSummary(t) ==
    /\ threads[t].pc = "returned"
    /\ threads' = [threads EXCEPT ![t].summary = get_organization_summary(moved_files),
                                  ![t].pc = "done"]
    /\ UNCHANGED <<dupVars, sanVars, orgVars, cli, webVars, loopVars, catVars>>

InitOverlap ==
    /\ DetectorInit
    /\ SanIdle
    /\ categorizations \in RunsInputs(MaxBatch)
    /\ organize_by_date \in BOOLEAN
    /\ organize_by_project = FALSE
    /\ org_files = Keys(categorizations)
    /\ denied = {}
    /\ dirs = Prefixes(SourceDir)
    /\ disk = [q \in {categorizations[i].key.path : i \in 1..Len(categorizations)} |->
                  ContentAt(q)]
    /\ moved_files = <<>>
    /\ category_groups = <<>>
    /\ category_path = None
    /\ dest_path = None
    /\ pc = "threads"
    /\ group_i = 1
    /\ file_i = 1
    /\ raised = "ok"
    /\ dest_name = None
    /\ returned = <<>>
    /\ calls = 0
    /\ threads = [t \in 1..MaxThreads |-> NewThread]
    /\ cli = CliOff
    /\ WebIdle
    /\ LoopIdle
    /\ CatIdle

NextOverlap ==
    \E t \in 1..MaxThreads :
        \/ ThreadStart(t)
        \/ ThreadEnterGroup(t)
        \/ ThreadMoveNext(t)
        \/ ThreadReturn(t)
        \/ ThreadSummary(t)

SpecOverlap == InitOverlap /\ [][NextOverlap]_vars

UpperCase == <<"A", "B", "C", "D", "E", "F", "G", "H", "I", "J", "K", "L", "M", "N", "O", "P", "Q", "R", "S", "T", "U", "V", "W", "X", "Y", "Z">>
LowerCase == <<"a", "b", "c", "d", "e", "f", "g", "h", "i", "j", "k", "l", "m", "n", "o", "p", "q", "r", "s", "t", "u", "v", "w", "x", "y", "z">>

\* str.lower(), on the ASCII letters
Lower(s) ==
    [k \in 1..Len(s) |->
        IF \E j \in 1..Len(UpperCase) : UpperCase[j] = s[k]
        THEN LowerCase[CHOOSE j \in 1..Len(UpperCase) : UpperCase[j] = s[k]]
        ELSE s[k]]

\* sub in s, for two str
Contains(sub, s) ==
    \E k \in 0..(Len(s) - Len(sub)) : SubSeq(s, k + 1, k + Len(sub)) = sub

\* FileScanner._get_file_info: the record of the file at a path
_get_file_info(path, size, modified, hash, mime_type) ==
    [path |-> path, name |-> PathName(path), size |-> size, modified |-> modified,
     hash |-> hash, extension |-> Lower(PathSuffix(path)), mime_type |-> mime_type]

\* the extension lists of _fallback_categorize, in the order of its elif chain
ExtensionRules ==
    <<
      [category |-> <<"D", "o", "c", "u", "m", "e", "n", "t", "s">>,
       mime |-> None,
       exts |-> {<<".", "p", "d", "f">>, <<".", "d", "o", "c">>,
                <<".", "d", "o", "c", "x">>, <<".", "t", "x", "t">>,
                <<".", "r", "t", "f">>, <<".", "o", "d", "t">>}],
      [category |-> <<"I", "m", "a", "g", "e", "s">>,
       mime |-> <<"i", "m", "a", "g", "e">>,
       exts |-> {<<".", "j", "p", "g">>, <<".", "j", "p", "e", "g">>,
                <<".", "p", "n", "g">>, <<".", "g", "i", "f">>, <<".", "b", "m", "p">>,
                <<".", "s", "v", "g">>, <<".", "w", "e", "b", "p">>}],
      [category |-> <<"V", "i", "d", "e", "o", "s">>,
       mime |-> <<"v", "i", "d", "e", "o">>,
       exts |-> {<<".", "m", "p", "4">>, <<".", "a", "v", "i">>,
                <<".", "m", "o", "v">>, <<".", "m", "k", "v">>, <<".", "w", "m", "v">>,
                <<".", "f", "l", "v">>}],
      [category |-> <<"A", "u", "d", "i", "o">>,
       mime |-> <<"a", "u", "d", "i", "o">>,
       exts |-> {<<".", "m", "p", "3">>, <<".", "w", "a", "v">>,
                <<".", "f", "l", "a", "c">>, <<".", "a", "a", "c">>,
                <<".", "o", "g", "g">>}],
      [category |-> <<"A", "r", "c", "h", "i", "v", "e", "s">>,
       mime |-> None,
       exts |-> {<<".", "z", "i", "p">>, <<".", "r", "a", "r">>,
                <<".", "7", "z">>, <<".", "t", "a", "r">>, <<".", "g", "z">>}],
      [category |-> <<"C", "o", "d", "e">>,
       mime |-> None,
       exts |-> {<<".", "p", "y">>, <<".", "j", "s">>, <<".", "t", "s">>,
                <<".", "j", "a", "v", "a">>, <<".", "c", "p", "p">>, <<".", "c">>,
                <<".", "h", "t", "m", "l">>, <<".", "c", "s", "s">>,
                <<".", "j", "s", "o", "n">>, <<".", "x", "m", "l">>}],
      [category |-> <<"S", "p", "r", "e", "a", "d", "s", "h", "e", "e", "t", "s">>,
       mime |-> None,
       exts |-> {<<".", "x", "l", "s">>, <<".", "x", "l", "s", "x">>,
                <<".", "c", "s", "v">>, <<".", "o", "d", "s">>}],
      [category |-> <<"P", "r", "e", "s", "e", "n", "t", "a", "t", "i", "o", "n", "s">>,
       mime |-> None,
       exts |-> {<<".", "p", "p", "t">>, <<".", "p", "p", "t", "x">>,
                <<".", "o", "d", "p">>}],
      [category |-> <<"I", "n", "s", "t", "a", "l", "l", "e", "r", "s">>,
       mime |-> None,
       exts |-> {<<".", "e", "x", "e">>, <<".", "m", "s", "i">>,
                <<".", "d", "m", "g">>, <<".", "p", "k", "g">>, <<".", "d", "e", "b">>,
                <<".", "r", "p", "m">>}] >>

\* whether a branch of the elif chain takes the file
RuleMatches(rule, ext, mime) ==
    ext \in rule.exts \/ (rule.mime # None /\ Contains(rule.mime, mime))

_fallback_categorize(file) ==
    LET ext  == Lower(file.extension)
        mime == IF Truthy(file.mime_type) THEN file.mime_type ELSE <<>>
        hits == {k \in 1..Len(ExtensionRules) : RuleMatches(ExtensionRules[k], ext, mime)}
        category == IF hits = {} THEN Other
                    ELSE ExtensionRules[CHOOSE k \in hits : \A j \in hits : k <= j].category
    IN  [category |-> category, subcategory |-> None, project |-> None,
         suggested_name |-> file.name, confidence |-> <<"0", ".", "7">>,
         reason |-> <<"C", "a", "t", "e", "g", "o", "r", "i", "z", "e", "d", " ", "b", "y", " ", "e", "x", "t", "e", "n", "s", "i", "o", "n", ":", " ">> \o ext]

\* {file: self._fallback_categorize(file) for file in files}
RECURSIVE AllFallback(_)
AllFallback(fs) ==
    IF fs = <<>> THEN <<>>
    ELSE LET n == Len(fs)
             rest == AllFallback(SubSeq(fs, 1, n - 1))
             e == [key |-> fs[n], val |-> _fallback_categorize(fs[n])]
         IN  IF fs[n] \in DictKeys(rest) THEN [rest EXCEPT ![DictGet(rest, fs[n])] = e]
             ELSE Append(rest, e)

\* whether `file.name in result` raises: a JSON null has no membership test
InRaises(answer) == answer.kind = "null"

\* file.name in result
NameIn(file_name, answer) ==
    IF answer.kind \in {"dict", "list"} THEN file_name \in answer.keys
    ELSE Contains(file_name, answer.text)

\* a classification as the language model writes it
LlmRecord ==
    [category |-> <<"M", "e", "m", "e", "s">>, subcategory |-> <<"F", "u", "n">>,
     suggested_name |-> <<"n", ".", "t">>]

\* result[file.name] for a dict
ValueOf(answer) == IF answer.vals = "object" THEN LlmRecord ELSE Int5

\* a bug the mapping loop could have: no else branch, unanswered files are dropped
Categorized_AnsweredOnly(fs, answer) ==
    LET answered == SelectSeq(fs, LAMBDA f : NameIn(f.name, answer))
    IN  [k \in 1..Len(answered) |-> [key |-> answered[k], val |-> ValueOf(answer)]]

\* the mapping loop of _categorize_batch over a dict answer, for distinct files
Categorized(fs, answer) ==
    [k \in 1..Len(fs) |->
        [key |-> fs[k],
         val |-> IF NameIn(fs[k].name, answer) THEN ValueOf(answer)
                 ELSE _fallback_categorize(fs[k])]]

\* whether the try block of _categorize_batch raises: the provider call does,
\* the membership test does, or result[file.name] does on a list or a str
TryRaises(fs, answer) ==
    \/ answer.kind = "raise"
    \/ fs # <<>> /\ InRaises(answer)
    \/ answer.kind \in {"list", "str"} /\ \E k \in 1..Len(fs) : NameIn(fs[k].name, answer)

_categorize_batch(fs, prov, answer) ==
    IF prov \notin {"openai", "huggingface"} THEN AllFallback(fs)
    ELSE IF TryRaises(fs, answer) THEN AllFallback(fs)
    ELSE Categorized(fs, answer)

\* results.update(batch_results)
RECURSIVE DictUpdate(_, _)
DictUpdate(d, e) ==
    IF e = <<>> THEN d
    ELSE LET n == Len(e)
             rest == DictUpdate(d, SubSeq(e, 1, n - 1))
         IN  IF e[n].key \in DictKeys(rest)
             THEN [rest EXCEPT ![DictGet(rest, e[n].key)].val = e[n].val]
             ELSE Append(rest, e[n])

\* files[i:i + batch_size], i counted from 0
Batch(fs, start, size) ==
    SubSeq(fs, start + 1, IF start + size < Len(fs) THEN start + size ELSE Len(fs))

\* the batch sizes a caller passes: the default, and sizes that split the list
BatchSizes == {1, 2, DefaultBatchSize}

ForeignName == <<"z", "z", "z">>

\* what the provider can answer to a batch
Answers(batch) ==
    LET names == {batch[k].name : k \in 1..Len(batch)}
        text  == IF batch = <<>> THEN <<>> ELSE <<"x">> \o batch[1].name
    IN  {Answer("raise", {}, "object", <<>>), Answer("null", {}, "object", <<>>),
         Answer("list", {}, "object", <<>>), Answer("list", names, "object", <<>>),
         Answer("str", {}, "object", <<>>), Answer("str", {}, "object", text),
         Answer("dict", names, "number", <<>>)}
        \cup {Answer("dict", S, "object", <<>>) : S \in SUBSET (names \cup {ForeignName})}

\* results = {} and the loop's first test
CategorizeStart(size) ==
    /\ pc = "cat_idle"
    /\ batch_size' = size
    /\ batch_start' = 0
    /\ results' = <<>>
    /\ pc' = "cat_loop"
    /\ UNCHANGED <<dupVars, sanVars, runVars, fsVars, moved_files, category_groups,
                   category_path, dest_path, group_i, file_i, raised, logVars,
                   threads, cli, webVars, loopVars, provider, result>>

\* one pass of the loop: batch = files[i:i + batch_size], _categorize_batch, update
CategorizeBatch(answer) ==
    /\ pc = "cat_loop"
    /\ batch_start < Len(files)
    /\ result' = IF provider \in {"openai", "huggingface"} THEN answer ELSE result
    /\ results' = DictUpdate(results,
                             _categorize_batch(Batch(files, batch_start, batch_size),
                                               provider, answer))
    /\ batch_start' = batch_start + batch_size
    /\ UNCHANGED <<dupVars, sanVars, orgVars, threads, cli, webVars, loopVars,
                   provider, batch_size>>

\* return results
CategorizeReturn ==
    /\ pc = "cat_loop"
    /\ batch_start >= Len(files)
    /\ pc' = "cat_done"
    /\ op' = "categorize_files"
    /\ ret' = results
    /\ UNCHANGED <<files, duplicates, found_before, sanVars, runVars, fsVars, moved_files,
                   category_groups, category_path, dest_path, group_i, file_i, raised,
                   logVars, appVars>>

(***************************************************************************)
(* SpecCategorize: one categorize_files call on a scanned list of up to    *)
(* MaxScanned files, with any batch size of BatchSizes, any provider and   *)
(* any answer of Answers to each batch.                                    *)
(***************************************************************************)
\* the names and MIME types a scan can find: an extension of the Documents
\* list, an upper-case one of the Images list, none with an image MIME type,
\* and an extension of no list
ScannedKinds ==
    {[name |-> <<"a", ".", "t", "x", "t">>, mime_type |-> None],
     [name |-> <<"b", ".", "P", "N", "G">>, mime_type |-> None],
     [name |-> <<"c">>, mime_type |-> <<"i", "m", "a", "g", "e", "/", "p", "n", "g">>],
     [name |-> <<"d", ".", "x", "y", "z">>, mime_type |-> None]}

\* the i-th file of a scan lies in its own folder /s/i
ScannedFile(k, kind) ==
    _get_file_info(Append(Append(SourceDir, IntStr(k)), kind.name), SizeAt(k), ModifiedAt(k),
                   None, kind.mime_type)

CategorizeInputs(n) ==
    {[k \in 1..Len(ks) |-> ScannedFile(k, ks[k])] : ks \in SeqsUpTo(ScannedKinds, n)}

InitCategorize ==
    /\ SanIdle
    /\ files \in CategorizeInputs(MaxScanned)
    /\ duplicates = <<>>
    /\ found_before = FALSE
    /\ op = "init"
    /\ ret = None
    /\ categorizations = <<>>
    /\ organize_by_date = FALSE
    /\ organize_by_project = FALSE
    /\ org_files = <<>>
    /\ denied = {}
    /\ dirs = {}
    /\ disk = <<>>
    /\ moved_files = <<>>
    /\ category_groups = <<>>
    /\ category_path = None
    /\ dest_path = None
    /\ pc = "cat_idle"
    /\ group_i = 1
    /\ file_i = 1
    /\ raised = "ok"
    /\ dest_name = None
    /\ returned = <<>>
    /\ calls = 0
    /\ threads = <<>>
    /\ cli = CliOff
    /\ WebIdle
    /\ LoopIdle
    /\ provider \in {"openai", "huggingface", "rule-based"}
    /\ batch_size = DefaultBatchSize
    /\ batch_start = 0
    /\ result = NoAnswer
    /\ results = <<>>

NextCategorize ==
    \/ \E size \in BatchSizes : CategorizeStart(size)
    \/ \E answer \in Answers(Batch(files, batch_start, batch_size)) : CategorizeBatch(answer)
    \/ CategorizeReturn

SpecCategorize == InitCategorize /\ [][NextCategorize]_vars

(***************************************************************************)
(* Claims about the categorizer.                                           *)
(***************************************************************************)
\* the files of the batch that was categorized last
LastBatch == Batch(files, batch_start - batch_size, batch_size)

\* whether the provider's last answer holds an entry for the file
Answered(f) ==
    /\ provider \in {"openai", "huggingface"}
    /\ result.kind = "dict"
    /\ f.name \in result.keys

\* whether no extension list and no MIME word of the fallback fits the file
NoRuleFits(f) ==
    \A k \in 1..Len(ExtensionRules) :
        /\ Lower(f.extension) \notin ExtensionRules[k].exts
        /\ \/ ExtensionRules[k].mime = None
           \/ f.mime_type = None
           \/ ~Contains(ExtensionRules[k].mime, f.mime_type)

\* C22: the keys of what categorize_files returns are exactly the input
\* files, whatever the provider does, and a file the provider did not answer
\* for has the rule-based fallback record, whose category is one of the
\* known categories, Other when no extension or MIME rule fits.
C22_CompleteDefaultedMap ==
    /\ pc = "cat_done" =>
           /\ op = "categorize_files"
           /\ DictKeys(ret) = Range(files)
           /\ Len(ret) = Cardinality(Range(files))
    /\ pc \in {"cat_loop", "cat_done"} /\ batch_start > 0 =>
           \A f \in Range(LastBatch) :
               ~Answered(f) =>
                   /\ f \in DictKeys(results)
                   /\ LET rec == results[DictGet(results, f)].val
                      IN  /\ rec = _fallback_categorize(f)
                          /\ rec.category \in DEFAULT_CATEGORIES
                          /\ NoRuleFits(f) => rec.category = Other
                          /\ rec.suggested_name = f.name

\* a call over several batches has returned; the provider's answer to the
\* last batch named another file only, and a file of no rule was left to the
\* fallback
C22_Witness ==
    /\ pc = "cat_done"
    /\ batch_size < Len(files)
    /\ result.kind = "dict"
    /\ ForeignName \in result.keys
    /\ \E f \in Range(LastBatch) : ~Answered(f) /\ NoRuleFits(f)

(***************************************************************************)
(* DuplicateDetector.find_similar_names and the command line's duplicate   *)
(* prompt (main.py, _handle_duplicates).                                   *)
(***************************************************************************)
\* Path(name).stem of a name without separators
Stem(n) ==
    LET k == LastDot(n)
    IN  IF 1 < k /\ k < Len(n) THEN SubSeq(n, 1, k - 1) ELSE n

\* s.replace(sub, ''): the occurrences from the left, not overlapping
RECURSIVE Remove(_, _)
Remove(s, sub) ==
    IF Len(s) < Len(sub) THEN s
    ELSE IF SubSeq(s, 1, Len(sub)) = sub THEN Remove(SubSeq(s, Len(sub) + 1, Len(s)), sub)
    ELSE <<s[1]>> \o Remove(Tail(s), sub)

\* c.isalnum(), on ASCII
IsAlnum(c) == c \in Range(LowerCase) \cup Range(UpperCase) \cup {DigitChar(d) : d \in 0..9}

_normalize_name(n) ==
    LET lowered == Lower(Stem(n))
        removed == Remove(Remove(Remove(lowered, <<"c", "o", "p", "y">>), <<"_">>), <<"-">>)
    IN  SelectSeq(removed, IsAlnum)

\* name_groups[normalized].append(file) on a defaultdict(list)
RECURSIVE name_groups(_)
name_groups(fs) ==
    IF fs = <<>> THEN <<>>
    ELSE LET n == Len(fs)
         IN  DictAppend(name_groups(SubSeq(fs, 1, n - 1)), _normalize_name(fs[n].name), fs[n])

find_similar_names(fs) ==
    LET similar == SelectSeq(name_groups(fs), LAMBDA e : Len(e.val) > 1)
    IN  [k \in 1..Len(similar) |-> similar[k].val]

FindSimilarNames ==
    /\ op' = "find_similar_names"
    /\ ret' = find_similar_names(files)
    /\ UNCHANGED <<files, duplicates, found_before, sanVars, orgVars, appVars>>

\* a bug _confirm_organization could have: everything but n confirms
Confirmed_NotNo(response) == Lower(response) # <<"n">>

\* response.lower() == 'y'
Confirmed(response) == Lower(response) = <<"y">>

\* where scan_and_organize goes after its duplicate step
AfterDuplicates(interactive) == IF interactive THEN "confirm" ELSE "organize"

\* a bug _handle_duplicates could have: the answer y deletes the remove lists
HandleDuplicates_Removes(response) ==
    /\ duplicates # <<>>
    /\ cli.step \in {"off", "duplicates"}
    /\ cli' = [cli EXCEPT !.dup_response = response,
                          !.step = IF @ = "off" THEN @ ELSE AfterDuplicates(cli.interactive)]
    /\ op' = "_handle_duplicates"
    /\ ret' = None
    /\ disk' = IF Confirmed(response)
               THEN LET gone == UNION {{Resolve(g.remove[j].path) : j \in 1..Len(g.remove)} :
                                           g \in Range(suggest_cleanup(duplicates))}
                    IN  [q \in DOMAIN disk \ gone |-> disk[q]]
               ELSE disk
    /\ UNCHANGED <<files, duplicates, found_before, sanVars, runVars, dirs, moved_files,
                   category_groups, category_path, dest_path, pc, group_i, file_i, raised,
                   logVars, threads, webVars, loopVars, catVars>>

\* _handle_duplicates: suggest_cleanup, the table, the prompt and, on y, a
\* message that removal is not implemented
HandleDuplicates(response) ==
    /\ duplicates # <<>>
    /\ cli.step \in {"off", "duplicates"}
    /\ cli' = [cli EXCEPT !.dup_response = response,
                          !.step = IF @ = "off" THEN @ ELSE AfterDuplicates(cli.interactive)]
    /\ op' = "_handle_duplicates"
    /\ ret' = None
    /\ disk' = disk
    /\ UNCHANGED <<files, duplicates, found_before, sanVars, runVars, dirs, moved_files,
                   category_groups, category_path, dest_path, pc, group_i, file_i, raised,
                   logVars, threads, webVars, loopVars, catVars>>

\* what a user types at a y/n prompt
Responses == {<<"y">>, <<"Y">>, <<"n">>, <<>>, <<"y", "e", "s">>}

(***************************************************************************)
(* SpecRecommend: a scan of up to MaxFiles files that still lie where the  *)
(* scan found them, then the detector's operations and the duplicate       *)
(* prompt in any order, with any answer.                                   *)
(***************************************************************************)
\* names that normalize to a, a and b1
SimilarNames == {<<"a", ".", "t", "x", "t">>, <<"A", "-", "C", "o", "p", "y", ".", "t", "x", "t">>, <<"b", "_", "1", ".", "t", "x", "t">>}

\* the i-th record of a scan lies in its own folder /s/i
RecommendFile(k, c) ==
    FileInfo(Append(Append(SourceDir, IntStr(k)), c.name), SizeAt(k), ModifiedAt(k), c.hash)

RecommendInputs(n) ==
    {[k \in 1..Len(cs) |-> RecommendFile(k, cs[k])] :
        cs \in SeqsUpTo([name : SimilarNames, hash : {Abc123, None}], n)}

\* the directories and the regular files of a scanned list
DirsOf(fs) == UNION {Prefixes(Parent(fs[k].path)) : k \in 1..Len(fs)}
DiskOf(fs) == [q \in {fs[k].path : k \in 1..Len(fs)} |-> ContentAt(q)]

InitRecommend ==
    /\ SanIdle
    /\ AppIdle
    /\ files \in RecommendInputs(MaxFiles)
    /\ duplicates = <<>>
    /\ found_before = FALSE
    /\ op = "init"
    /\ ret = None
    /\ OrgOff(DirsOf(files), DiskOf(files), "off")

NextRecommend ==
    \/ FindDuplicates(files)
    \/ FindSimilarNames
    \/ SuggestCleanup
    \/ GetDuplicateSummary
    \/ \E response \in Responses : HandleDuplicates(response)

SpecRecommend == InitRecommend /\ [][NextRecommend]_vars

\* C23: duplicate handling only recommends: no sequence of find_duplicates,
\* find_similar_names, suggest_cleanup, get_duplicate_summary and the
\* duplicate prompt, whatever the user answers, deletes, moves or modifies a
\* file; the filesystem is unchanged by them.
C23_OnlyRecommends == [][disk' = disk /\ dirs' = dirs]_vars

\* the user answered y to the duplicate prompt, after similar names and a
\* cleanup suggestion with a non-empty remove list had been computed, and
\* every scanned file is still in place
C23_Witness ==
    /\ op = "_handle_duplicates"
    /\ Confirmed(cli.dup_response)
    /\ duplicates # <<>>
    /\ find_similar_names(files) # <<>>
    /\ \A k \in 1..Len(files) : files[k].path \in DOMAIN disk

(***************************************************************************)
(* The command line (main.py): main and OrganizerAgent.scan_and_organize,  *)
(* one action per stretch between two prompts.                             *)
(***************************************************************************)
\* the rows of _show_dry_run_preview: source, category, destination
PreviewRows(cats) ==
    [k \in 1..Len(cats) |->
        [source |-> PathStr(cats[k].key.path), category |-> CategoryOf(cats[k].val),
         destination |-> PathStr(PathJoin(PathJoin(OrganizeDir, CategoryOf(cats[k].val)),
                                          cats[k].key.name))]]

\* main builds the agent and calls scan_and_organize, which scans, detects
\* duplicates and goes on to its first prompt; with --schedule the agent is
\* built by run_scheduled with dry_run=False and called with interactive=False
CliMain(args) ==
    /\ cli.step = "shell"
    /\ LET dry_run     == IF args.schedule THEN FALSE ELSE args.dry_run
           interactive == IF args.schedule THEN FALSE ELSE args.interactive \/ ~args.dry_run
           found       == find_duplicates(files)
           step        == IF files = <<>> THEN "end"
                          ELSE IF found # <<>> /\ interactive THEN "duplicates"
                          ELSE AfterDuplicates(interactive)
       IN  /\ cli' = Cli(step, dry_run, interactive, args, None, None)
           /\ duplicates' = IF files = <<>> THEN duplicates ELSE found
           /\ found_before' = (found_before \/ duplicates # <<>>)
           /\ op' = IF files = <<>> THEN "scan" ELSE "get_duplicate_summary"
           /\ ret' = IF files = <<>> THEN None ELSE get_duplicate_summary(found)
    /\ UNCHANGED <<files, sanVars, orgVars, threads, webVars, loopVars, catVars>>

\* _confirm_organization and the return that follows a refusal
CliConfirm(response) ==
    /\ cli.step = "confirm"
    /\ cli' = [cli EXCEPT !.response = response,
                          !.step = IF Confirmed(response) THEN "organize" ELSE "cancelled"]
    /\ UNCHANGED <<dupVars, sanVars, orgVars, threads, webVars, loopVars, catVars>>

\* step 4 with self.dry_run: _show_dry_run_preview
CliPreview ==
    /\ cli.step = "organize"
    /\ cli.dry_run
    /\ cli' = [cli EXCEPT !.step = "previewed"]
    /\ op' = "_show_dry_run_preview"
    /\ ret' = PreviewRows(categorizations)
    /\ UNCHANGED <<files, duplicates, found_before, sanVars, orgVars, threads, webVars,
                   loopVars, catVars>>

\* step 4 without self.dry_run: the call organize_by_category(files,
\* categorizations, organize_by_date=True, organize_by_project=True)
CliOrganize ==
    /\ cli.step = "organize"
    /\ ~cli.dry_run
    /\ pc = "cli"
    /\ cli' = [cli EXCEPT !.step = "organizing"]
    /\ pc' = "idle"
    /\ organize_by_date' = TRUE
    /\ organize_by_project' = TRUE
    /\ UNCHANGED <<dupVars, sanVars, categorizations, org_files, denied, fsVars, moved_files,
                   category_groups, category_path, dest_path, group_i, file_i, raised,
                   logVars, threads, webVars, loopVars, catVars>>

\* summary = self.organizer.get_organization_summary() and the report
CliSummary ==
    /\ cli.step = "organizing"
    /\ pc = "done"
    /\ cli' = [cli EXCEPT !.step = "end"]
    /\ op' = "get_organization_summary"
    /\ ret' = get_organization_summary(moved_files)
    /\ UNCHANGED <<files, duplicates, found_before, sanVars, orgVars, threads, webVars,
                   loopVars, catVars>>

(***************************************************************************)
(* SpecCli: one run of the command line with any of its flags, over a scan *)
(* of up to MaxBatch files, some with the same content, any answers to the *)
(* prompts.                                                                *)
(***************************************************************************)
CliArgs == [dry_run : BOOLEAN, interactive : BOOLEAN, schedule : BOOLEAN]

\* the i-th scanned file /s/a.txt, ... with or without the shared digest
CliFile(k, h) == FileInfo(Append(SourceDir, SourceName(k)), SizeAt(k), ModifiedAt(k), h)

CliInputs(n) ==
    {[k \in 1..Len(cs) |-> [key |-> CliFile(k, cs[k].hash), val |-> cs[k].cat_info]] :
        cs \in SeqsUpTo([hash : {Abc123, <<>>}, cat_info : RunsCatInfos], n)}

InitCli ==
    /\ SanIdle
    /\ categorizations \in CliInputs(MaxBatch)
    /\ files = Keys(categorizations)
    /\ duplicates = <<>>
    /\ found_before = FALSE
    /\ op = "init"
    /\ ret = None
    /\ organize_by_date = FALSE
    /\ organize_by_project = FALSE
    /\ org_files = files
    /\ denied = {}
    /\ dirs = DirsOf(files)
    /\ disk = DiskOf(files)
    /\ moved_files = <<>>
    /\ category_groups = <<>>
    /\ category_path = None
    /\ dest_path = None
    /\ pc = "cli"
    /\ group_i = 1
    /\ file_i = 1
    /\ raised = "ok"
    /\ dest_name = None
    /\ returned = <<>>
    /\ calls = 0
    /\ threads = <<>>
    /\ cli = Cli("shell", FALSE, TRUE, NoArgs, None, None)
    /\ WebIdle
    /\ LoopIdle
    /\ CatIdle

NextCli ==
    \/ \E args \in CliArgs : CliMain(args)
    \/ \E response \in Responses : HandleDuplicates(response)
    \/ \E response \in Responses : CliConfirm(response)
    \/ CliPreview
    \/ CliOrganize
    \/ OrganizeStart
    \/ EnterGroup
    \/ MoveNext
    \/ OrganizeReturn
    \/ CliSummary

SpecCli == InitCli /\ [][NextCli]_vars

InitSafeMove ==
    /\ DetectorInit
    /\ SanIdle
    /\ AppIdle
    /\ \E c \in MoveCatInfos : categorizations = <<[key |-> SourceFile(1), val |-> c]>>
    /\ organize_by_date = FALSE
    /\ organize_by_project = FALSE
    /\ org_files = Keys(categorizations)
    /\ denied \in {{}, {ImagesDir}, {SourceDir}}
    /\ dirs = Prefixes(SourceDir) \cup Prefixes(ImagesDir)
    /\ \E taken \in SUBSET TakenNames(MaxTaken), present \in BOOLEAN :
           disk = [q \in {Append(ImagesDir, n) : n \in taken}
                         \cup (IF present THEN {SourceFile(1).path} ELSE {})
                   |-> ContentAt(q)]
    /\ moved_files = <<>>
    /\ category_groups = <<>>
    /\ category_path = ImagesDir
    /\ dest_path = ImagesDir
    /\ pc = "move"
    /\ group_i = 1
    /\ file_i = 1
    /\ raised = "ok"
    /\ dest_name = None
    /\ returned = <<>>
    /\ calls = 0

SpecSafeMove == InitSafeMove /\ [][NextMove]_vars

\* the paths that hold a content
Holders(content, fs) == {q \in DOMAIN fs : fs[q] = content}

\* C25: every call of _move_file, successful or failed, leaves every file
\* that was in the destination tree in place with its content, and leaves
\* the source file's content at exactly one path: the reported destination
\* when success is true, the source path when success is false and the
\* source existed.
C25_NoDataLoss ==
    [][LET src == SourceFile(1).path
       IN  calls' = calls + 1 /\ raised' = "ok" =>
               /\ \A q \in DOMAIN disk \ {src} : q \in DOMAIN disk' /\ disk'[q] = disk[q]
               /\ src \in DOMAIN disk =>
                      Holders(disk[src], disk') =
                          IF ret'.success THEN {Resolve(ParsePath(ret'.destination))}
                          ELSE {src}]_vars

(***************************************************************************)
(* FileOrganizer._move_file, one statement per action, for the file        *)
(* /s/a.txt and the folder dest_path.  Every dest_path.exists() either     *)
(* answers or raises an OSError (a folder that cannot be searched); the    *)
(* local dest_path of the method is the variable candidate.                *)
(***************************************************************************)
\* the outcome dict of the except block
Failed(source, dest_dir, error) ==
    [source |-> PathStr(source), destination |-> PathStr(dest_dir), success |-> FALSE,
     error |-> error]

\* no outcome yet: the call has not returned
NoOutcome == [source |-> <<>>, destination |-> <<>>, success |-> FALSE, error |-> "none"]

\* the largest counter the loop can reach: one more than the entries there are
CounterLimit(ds, fs) == Cardinality(ds) + Cardinality(DOMAIN fs) + 1

\* dest_name = ...; dest_name = self._sanitize_name(dest_name); dest_path = dest_dir / dest_name
MoveBegin ==
    /\ pc = "mv_call"
    /\ LET pair   == categorizations[1]
           chosen == ChosenName(pair.key.path, Get(pair.val, "suggested_name", None))
       IN  IF IsStr(chosen)
           THEN /\ dest_name' = _sanitize_name(chosen)
                /\ candidate' = PathJoin(dest_path, _sanitize_name(chosen))
                /\ pc' = "mv_check"
                /\ UNCHANGED <<op, ret>>
           ELSE /\ dest_name' = chosen
                /\ op' = "_move_file"
                /\ ret' = Failed(pair.key.path, dest_path, "AttributeError")
                /\ pc' = "mv_done"
                /\ UNCHANGED candidate
    /\ UNCHANGED <<files, duplicates, found_before, sanVars, runVars, fsVars, moved_files,
                   category_groups, category_path, dest_path, group_i, file_i, raised,
                   returned, calls, threads, cli, webVars, counter, catVars>>

\* if dest_path.exists(): stem, suffix, counter = 1
MoveCheck(fails) ==
    /\ pc = "mv_check"
    /\ IF fails
       THEN /\ op' = "_move_file"
            /\ ret' = Failed(categorizations[1].key.path, dest_path, "OSError")
            /\ pc' = "mv_done"
            /\ UNCHANGED counter
       ELSE /\ pc' = IF Exists(candidate, dirs, disk) THEN "mv_while" ELSE "mv_move"
            /\ counter' = IF Exists(candidate, dirs, disk) THEN 1 ELSE counter
            /\ UNCHANGED <<op, ret>>
    /\ UNCHANGED <<files, duplicates, found_before, sanVars, runVars, fsVars, moved_files,
                   category_groups, category_path, dest_path, group_i, file_i, raised,
                   logVars, threads, cli, webVars, candidate, catVars>>

\* a bug the loop could have: an error of the existence check counts as taken
MoveWhile_ErrorMeansTaken(fails) ==
    /\ pc = "mv_while"
    /\ counter <= CounterLimit(dirs, disk)
    /\ \E first \in {PathJoin(dest_path, dest_name)} :
       \E numbered \in {PathStem(first) \o <<"_">> \o IntStr(counter) \o PathSuffix(first)} :
           IF fails \/ Exists(candidate, dirs, disk)
           THEN /\ candidate' = PathJoin(dest_path, numbered)
                /\ counter' = counter + 1
                /\ UNCHANGED <<op, ret, pc>>
           ELSE /\ pc' = "mv_move"
                /\ UNCHANGED <<op, ret, counter, candidate>>
    /\ UNCHANGED <<files, duplicates, found_before, sanVars, runVars, fsVars, moved_files,
                   category_groups, category_path, dest_path, group_i, file_i, raised,
                   logVars, threads, cli, webVars, catVars>>

\* while dest_path.exists(): dest_path = dest_dir / f"{stem}_{counter}{suffix}"; counter += 1
\* (first is what the stem and the suffix were taken from, numbered the new name)
MoveWhile(fails) ==
    /\ pc = "mv_while"
    /\ counter <= CounterLimit(dirs, disk)
    /\ \E first \in {PathJoin(dest_path, dest_name)} :
       \E numbered \in {PathStem(first) \o <<"_">> \o IntStr(counter) \o PathSuffix(first)} :
           IF fails
           THEN /\ op' = "_move_file"
                /\ ret' = Failed(categorizations[1].key.path, dest_path, "OSError")
                /\ pc' = "mv_done"
                /\ UNCHANGED <<counter, candidate>>
           ELSE IF Exists(candidate, dirs, disk)
           THEN /\ candidate' = PathJoin(dest_path, numbered)
                /\ counter' = counter + 1
                /\ UNCHANGED <<op, ret, pc>>
           ELSE /\ pc' = "mv_move"
                /\ UNCHANGED <<op, ret, counter, candidate>>
    /\ UNCHANGED <<files, duplicates, found_before, sanVars, runVars, fsVars, moved_files,
                   category_groups, category_path, dest_path, group_i, file_i, raised,
                   logVars, threads, cli, webVars, catVars>>

\* shutil.move(str(source), str(dest_path)) and the return of either outcome
MoveShutil ==
    /\ pc = "mv_move"
    /\ LET source == categorizations[1].key.path
           error  == MoveError(source, candidate, dirs, disk)
       IN  /\ disk' = DiskAfterMove(source, candidate, dirs, disk)
           /\ ret' = IF error = "ok"
                     THEN [source |-> PathStr(source), destination |-> PathStr(candidate),
                           success |-> TRUE]
                     ELSE Failed(source, dest_path, error)
    /\ op' = "_move_file"
    /\ pc' = "mv_done"
    /\ UNCHANGED <<files, duplicates, found_before, sanVars, runVars, dirs, moved_files,
                   category_groups, category_path, dest_path, group_i, file_i, raised,
                   logVars, appVars>>

(***************************************************************************)
(* SpecLoop: one stepwise _move_file call for /s/a.txt into /root/Images,  *)
(* where any of a.txt, a_1.txt, ... may be taken.  SpecLoopLive adds that  *)
(* the thread that runs the call keeps running: a statement that can       *)
(* execute does execute.                                                   *)
(***************************************************************************)
\* suggested_name: missing, one sanitized to nothing, a number
LoopCatInfos ==
    {MakeDict([category |-> Images, suggested_name |-> n]) : n \in {Missing, Dots, Int5}}

InitLoop ==
    /\ files = <<>>
    /\ duplicates = <<>>
    /\ found_before = FALSE
    /\ op = "init"
    /\ ret = NoOutcome
    /\ SanIdle
    /\ \E c \in LoopCatInfos : categorizations = <<[key |-> SourceFile(1), val |-> c]>>
    /\ organize_by_date = FALSE
    /\ organize_by_project = FALSE
    /\ org_files = Keys(categorizations)
    /\ denied \in {{}, {ImagesDir}}
    /\ dirs = Prefixes(SourceDir) \cup Prefixes(ImagesDir)
    /\ \E taken \in SUBSET Numbered(<<"a">>, <<".", "t", "x", "t">>, MaxTaken), present \in BOOLEAN :
           disk = [q \in {Append(ImagesDir, n) : n \in taken}
                         \cup (IF present THEN {SourceFile(1).path} ELSE {})
                   |-> ContentAt(q)]
    /\ moved_files = <<>>
    /\ category_groups = <<>>
    /\ category_path = ImagesDir
    /\ dest_path = ImagesDir
    /\ pc = "mv_call"
    /\ group_i = 1
    /\ file_i = 1
    /\ raised = "ok"
    /\ dest_name = None
    /\ returned = <<>>
    /\ calls = 0
    /\ AppIdle

NextLoop ==
    \/ MoveBegin
    \/ \E fails \in BOOLEAN : MoveCheck(fails)
    \/ \E fails \in BOOLEAN : MoveWhile(fails)
    \/ MoveShutil

SpecLoop == InitLoop /\ [][NextLoop]_vars

\* every step of NextLoop changes pc or counter
loopPos == <<pc, counter>>

SpecLoopLive == SpecLoop /\ WF_loopPos(NextLoop)

\* the name the loop must stop at: the first of name, name_1, name_2, ... not taken
FirstFree ==
    LET first == PathJoin(dest_path, dest_name)
    IN  IF Exists(first, dirs, disk) THEN NumberedPath(dest_path, first, dirs, disk) ELSE first

\* C26: _move_file always terminates with an outcome: with finitely many
\* colliding names the numbering loop stops at the first free name, and an
\* error raised by an existence check ends the loop with a failed outcome
\* instead of looping forever.
C26_TerminatesWithOutcome ==
    /\ [](pc = "mv_move" => candidate = FirstFree)
    /\ <>[](pc = "mv_done" /\ op = "_move_file" /\ raised = "ok" /\ ret # NoOutcome)

\* the call has returned a failed outcome after an existence check inside the
\* numbering loop raised, two names being taken
C26_Witness ==
    /\ pc = "mv_done"
    /\ counter = 2
    /\ ~ret.success
    /\ ret.error = "OSError"


(***************************************************************************)
(* web_app: the module-level scan_results, the request handlers and the    *)
(* background threads they start.  Of scan_results the entries files,      *)
(* categorizations, duplicates and status are kept; message and progress   *)
(* are display only.  A job is a started thread: its target, where it      *)
(* stands, and its locals.  scan_results["files"] is non-empty only after  *)
(* a do_scan, which initializes the agent, so the agent is initialized     *)
(* wherever /api/categorize and /api/duplicates pass their guard.          *)
(***************************************************************************)
\* everything the web application leaves alone, but op and calls
webRest ==
    <<files, duplicates, found_before, ret, sanVars, runVars, fsVars, moved_files,
      category_groups, category_path, dest_path, pc, group_i, file_i, raised, dest_name,
      returned, threads, cli, loopVars, catVars>>

\* FileScanner._compute_hash: the digest of the bytes, one per content
_compute_hash(content) == <<"m", "d", "5", "(">> \o content \o <<")">>

\* the k-th file a scan of /s can find: /s/k
WebPath(k) == Append(SourceDir, IntStr(k))

\* FileScanner(directories, compute_hash=True).scan(): the records of the
\* regular files below the directories, in the order of the walk
ScannerScan(directories, fs) ==
    LET found == SelectSeq([k \in 1..MaxScanned |-> WebPath(k)],
                           LAMBDA p : /\ p \in DOMAIN fs
                                      /\ \E i \in 1..Len(directories) : IsPrefix(directories[i], p))
    IN  [k \in 1..Len(found) |->
            _get_file_info(found[k], Len(fs[found[k]]), ModifiedAt(1),
                           _compute_hash(fs[found[k]]), None)]

\* do_scan: the dict stored for a record (size_mb and modified are display only)
StoredFile(f) ==
    [path |-> PathStr(f.path), name |-> f.name, size |-> f.size,
     extension |-> f.extension, mime_type |-> f.mime_type]

StoredFiles(fs) == [k \in 1..Len(fs) |-> StoredFile(fs[k])]

\* f_data.get("hash")
StoredHash(f_data) == IF "hash" \in DOMAIN f_data THEN f_data.hash ELSE None

\* the FileInfo a thread rebuilds from a stored dict; with_hash is whether the
\* constructor call passes hash=f_data.get("hash")
Rebuilt(f_data, with_hash) ==
    [path |-> ParsePath(f_data.path), name |-> f_data.name, size |-> f_data.size,
     modified |-> ModifiedAt(1), hash |-> IF with_hash THEN StoredHash(f_data) ELSE None,
     extension |-> f_data.extension, mime_type |-> f_data.mime_type]

\* the loop of do_categorize, do_organize and do_find_duplicates over
\* scan_results["files"]: the records of the files that still exist
RebuiltFiles(stored, with_hash, ds, fs) ==
    LET all == [k \in 1..Len(stored) |-> Rebuilt(stored[k], with_hash)]
    IN  SelectSeq(all, LAMBDA f : Exists(f.path, ds, fs))

\* the parameters FileCategorizer.categorize_files takes besides self
categorize_files_params == {"files", "batch_size"}

\* a call raises TypeError when it passes a keyword the function does not take
CallRaises(params, keywords) == ~(keywords \subseteq params)

\* WebOrganizerAgent.categorize_files(files, progress_callback=update_progress),
\* with the rule-based provider: (success, categorizations)
agent_categorize_files(fs) ==
    IF CallRaises(categorize_files_params, {"progress_callback"})
    THEN [success |-> FALSE, value |-> <<>>]
    ELSE [success |-> TRUE, value |-> _categorize_batch(fs, "rule-based", NoAnswer)]

\* do_categorize: the dict keyed by str(f.path) it stores
StoredCategorizations(cats) ==
    [k \in 1..Len(cats) |->
        [key |-> PathStr(cats[k].key.path),
         val |-> [category       |-> cats[k].val.category,
                  subcategory    |-> cats[k].val.subcategory,
                  project        |-> cats[k].val.project,
                  suggested_name |-> cats[k].val.suggested_name]]]

\* WebOrganizerAgent.find_duplicates(files)["duplicates"]; success is always
\* true, and the summary is get_duplicate_summary of the same groups
agent_find_duplicates(fs) == find_duplicates(fs)

Job(target, at, directories, fs, success, value) ==
    [target |-> target, at |-> at, directories |-> directories, files |-> fs,
     success |-> success, value |-> value]

\* threading.Thread(target=...).start()
Started(target, directories) == Job(target, "started", directories, <<>>, TRUE, <<>>)

\* the thread's target has returned
Finished(j) == SubSeq(jobs, 1, j - 1) \o SubSeq(jobs, j + 1, Len(jobs))

\* POST /api/scan
ApiScan(directories) ==
    /\ pc = "web"
    /\ calls < MaxRequests
    /\ IF directories = <<>>
       THEN UNCHANGED <<scan_results, jobs, op, calls>>
       ELSE /\ scan_results' = [scan_results EXCEPT !.status = "scanning"]
            /\ jobs' = Append(jobs, Started("do_scan", directories))
            /\ op' = "scan"
            /\ calls' = calls + 1
    /\ UNCHANGED webRest

\* do_scan: files = scanner.scan()
DoScan(j) ==
    /\ jobs[j].target = "do_scan"
    /\ jobs[j].at = "started"
    /\ \E scanned \in {ScannerScan(jobs[j].directories, disk)} :
           jobs' = [jobs EXCEPT ![j].files = scanned, ![j].at = "scanned"]
    /\ UNCHANGED <<scan_results, op, calls, webRest>>

\* do_scan: scan_results["files"] = [...]
DoScanStore(j) ==
    /\ jobs[j].target = "do_scan"
    /\ jobs[j].at = "scanned"
    /\ \E stored \in {StoredFiles(jobs[j].files)} :
           scan_results' = [scan_results EXCEPT !.files = stored]
    /\ jobs' = [jobs EXCEPT ![j].at = "stored"]
    /\ UNCHANGED <<op, calls, webRest>>

\* do_scan: scan_results["status"] = "scanned"
DoScanDone(j) ==
    /\ jobs[j].target = "do_scan"
    /\ jobs[j].at = "stored"
    /\ scan_results' = [scan_results EXCEPT !.status = "scanned"]
    /\ jobs' = Finished(j)
    /\ UNCHANGED <<op, calls, webRest>>

\* POST /api/categorize
ApiCategorize ==
    /\ pc = "web"
    /\ calls < MaxRequests
    /\ IF scan_results.files = <<>>
       THEN UNCHANGED <<scan_results, jobs, op, calls>>
       ELSE /\ scan_results' = [scan_results EXCEPT !.status = "categorizing"]
            /\ jobs' = Append(jobs, Started("do_categorize", <<>>))
            /\ op' = "categorize"
            /\ calls' = calls + 1
    /\ UNCHANGED webRest

\* do_categorize: the rebuilt records and the call of the agent
DoCategorize(j) ==
    /\ jobs[j].target = "do_categorize"
    /\ jobs[j].at = "started"
    /\ \E fs \in {RebuiltFiles(scan_results.files, FALSE, dirs, disk)} :
       \E answer \in {agent_categorize_files(fs)} :
           jobs' = [jobs EXCEPT ![j].files = fs, ![j].success = answer.success,
                                ![j].value = answer.value, ![j].at = "called"]
    /\ UNCHANGED <<scan_results, op, calls, webRest>>

\* do_categorize: if success: ... else: ...
DoCategorizeDone(j) ==
    /\ jobs[j].target = "do_categorize"
    /\ jobs[j].at = "called"
    /\ IF jobs[j].success
       THEN \E stored \in {StoredCategorizations(jobs[j].value)} :
                scan_results' = [scan_results EXCEPT !.categorizations = stored,
                                                     !.status = "categorized"]
       ELSE scan_results' = [scan_results EXCEPT !.status = "error"]
    /\ jobs' = Finished(j)
    /\ UNCHANGED <<op, calls, webRest>>

\* POST /api/duplicates
ApiDuplicates ==
    /\ pc = "web"
    /\ calls < MaxRequests
    /\ IF scan_results.files = <<>>
       THEN UNCHANGED <<scan_results, jobs, op, calls>>
       ELSE /\ scan_results' = [scan_results EXCEPT !.status = "checking_duplicates"]
            /\ jobs' = Append(jobs, Started("do_find_duplicates", <<>>))
            /\ op' = "duplicates"
            /\ calls' = calls + 1
    /\ UNCHANGED webRest

\* do_find_duplicates: the rebuilt records and the call of the agent
DoFindDuplicates(j) ==
    /\ jobs[j].target = "do_find_duplicates"
    /\ jobs[j].at = "started"
    /\ \E fs \in {RebuiltFiles(scan_results.files, TRUE, dirs, disk)} :
       \E groups \in {agent_find_duplicates(fs)} :
           jobs' = [jobs EXCEPT ![j].files = fs, ![j].value = groups, ![j].at = "called"]
    /\ UNCHANGED <<scan_results, op, calls, webRest>>

\* do_find_duplicates: scan_results["duplicates"] = result, of which the
\* groups are kept, and the status
DoFindDuplicatesDone(j) ==
    /\ jobs[j].target = "do_find_duplicates"
    /\ jobs[j].at = "called"
    /\ scan_results' = [scan_results EXCEPT !.duplicates = jobs[j].value,
                                            !.status = "duplicates_found"]
    /\ jobs' = Finished(j)
    /\ UNCHANGED <<op, calls, webRest>>

\* POST /api/reset
ApiReset ==
    /\ pc = "web"
    /\ calls < MaxRequests
    /\ scan_results' = [scan_results EXCEPT !.files = <<>>, !.categorizations = <<>>,
                                            !.duplicates = <<>>, !.status = "idle"]
    /\ op' = "reset"
    /\ calls' = calls + 1
    /\ UNCHANGED <<jobs, webRest>>

(***************************************************************************)
(* SpecWeb: one server process, up to MaxRequests accepted requests in any    *)
(* order, the threads they start interleaved in any way.  /s holds up to   *)
(* MaxScanned files, each with one of two contents; the filesystem does    *)
(* not change.  /api/organize is left out: it answers 400 while no         *)
(* categorization is stored.  SpecWebLive adds that every started thread   *)
(* keeps running.                                                          *)
(***************************************************************************)
WebContents == {<<"x">>, <<"y", "y">>}

WebDisks(n) ==
    UNION {[{WebPath(k) : k \in 1..m} -> WebContents] : m \in 1..n}

InitWeb ==
    /\ files = <<>>
    /\ duplicates = <<>>
    /\ found_before = FALSE
    /\ op = "init"
    /\ ret = None
    /\ SanIdle
    /\ \E fs \in WebDisks(MaxScanned) :
           OrgOff(UNION {Prefixes(p) \ {p} : p \in DOMAIN fs}, fs, "web")
    /\ AppIdle

\* a step of any started thread
WebThreads ==
    \E j \in DOMAIN jobs :
        \/ DoScan(j)
        \/ DoScanStore(j)
        \/ DoScanDone(j)
        \/ DoCategorize(j)
        \/ DoCategorizeDone(j)
        \/ DoFindDuplicates(j)
        \/ DoFindDuplicatesDone(j)

NextWeb ==
    \/ \E directories \in {<<>>, <<SourceDir>>} : ApiScan(directories)
    \/ ApiCategorize
    \/ ApiDuplicates
    \/ ApiReset
    \/ \E j \in DOMAIN jobs : DoScan(j)
    \/ \E j \in DOMAIN jobs : DoScanStore(j)
    \/ \E j \in DOMAIN jobs : DoScanDone(j)
    \/ \E j \in DOMAIN jobs : DoCategorize(j)
    \/ \E j \in DOMAIN jobs : DoCategorizeDone(j)
    \/ \E j \in DOMAIN jobs : DoFindDuplicates(j)
    \/ \E j \in DOMAIN jobs : DoFindDuplicatesDone(j)

SpecWeb == InitWeb /\ [][NextWeb]_vars

SpecWebLive == SpecWeb /\ WF_webVars(WebThreads)

(***************************************************************************)
(* Claims about the web application.                                       *)
(***************************************************************************)
\* the path strings of the stored files that still exist
StoredPathsThatExist ==
    {scan_results.files[k].path : k \in
        {i \in 1..Len(scan_results.files) :
            Exists(ParsePath(scan_results.files[i].path), dirs, disk)}}

\* C27: once /api/categorize is accepted, the background thread eventually
\* sets the status to 'categorized' and stores one categorization per
\* scanned file that still exists, keyed by the file's path string.
C27_CategorizeCompletes ==
    (op = "categorize")
        ~> (/\ scan_results.status = "categorized"
            /\ DictKeys(scan_results.categorizations) = StoredPathsThatExist)

\* a duplicate group as a client sees it: the hash and the paths
GroupsByPath(groups) ==
    {[hash |-> groups[i].key,
      paths |-> {PathStr(groups[i].val[k].path) : k \in 1..Len(groups[i].val)}] :
        i \in 1..Len(groups)}

\* the scanner's own records of the stored files that still exist
ScannerRecords ==
    SelectSeq(ScannerScan(<<SourceDir>>, disk),
              LAMBDA f : PathStr(f.path) \in StoredPathsThatExist)

\* C28: after a scan has completed, /api/duplicates reports the duplicate
\* groups that find_duplicates gives on the scanner's own records: every
\* content hash shared by at least 2 scanned files that still exist yields
\* a group.
C28_SameGroupsAsScanner ==
    (op = "duplicates" /\ jobs = <<>> /\ scan_results.status = "duplicates_found")
        => GroupsByPath(scan_results.duplicates) = GroupsByPath(find_duplicates(ScannerRecords))

\* C29: after /api/reset has returned, the stored files, categorizations and
\* duplicates stay empty and the status stays 'idle' until a new scan,
\* categorize or duplicates request is made, also when a thread started by
\* an earlier request is still running at the time of the reset.
C29_ResetStays ==
    op = "reset" => scan_results = ScanResultsIdle


(***************************************************************************)
(* SpecTree: one organize_by_category run over up to MaxBatch files of     *)
(* category Images, each of which lies either in /s or already in the      *)
(* folder the run resolves for it, under the name the run gives it.        *)
(***************************************************************************)
\* the folder _determine_destination resolves for a file of category Images
HomeDir(file, cat_info, by_date, ds, fs) ==
    _determine_destination(file, cat_info, ImagesDir, by_date, FALSE, ds, fs).path

\* the i-th file of the tree: in /s, or organized already
TreeFile(i, cat_info, organized, by_date) ==
    IF organized
    THEN FileInfo(Append(HomeDir(SourceFile(i), cat_info, by_date, {}, <<>>), SourceName(i)),
                  SizeAt(i), ModifiedAt(i), None)
    ELSE SourceFile(i)

TreeChoices ==
    [cat_info : {MakeDict([category |-> Images, subcategory |-> sc]) :
                     sc \in {Missing, Screenshots}},
     organized : BOOLEAN]

TreeInputs(n, by_date) ==
    {[i \in 1..Len(cs) |->
         [key |-> TreeFile(i, cs[i].cat_info, cs[i].organized, by_date), val |-> cs[i].cat_info]] :
        cs \in SeqsUpTo(TreeChoices, n)}

InitTree ==
    /\ DetectorInit
    /\ SanIdle
    /\ AppIdle
    /\ denied = {}
    /\ organize_by_date \in BOOLEAN
    /\ organize_by_project = FALSE
    /\ categorizations \in TreeInputs(MaxBatch, organize_by_date)
    /\ org_files = Keys(categorizations)
    /\ dirs = Prefixes(SourceDir)
              \cup UNION {Prefixes(Parent(categorizations[i].key.path)) :
                             i \in 1..Len(categorizations)}
    /\ disk = [q \in {categorizations[i].key.path : i \in 1..Len(categorizations)} |->
                  ContentAt(q)]
    /\ moved_files = <<>>
    /\ category_groups = <<>>
    /\ category_path = None
    /\ dest_path = None
    /\ pc = "idle"
    /\ group_i = 1
    /\ file_i = 1
    /\ raised = "ok"
    /\ dest_name = None
    /\ returned = <<>>
    /\ calls = 0

SpecTree == InitTree /\ [][Next]_vars

\* whether the source path of a classified file is already its resolved
\* destination directory joined with its final name
AtHome(pair) ==
    pair.key.path =
        PathJoin(HomeDir(pair.key, pair.val, organize_by_date, dirs, disk),
                 _sanitize_name(ChosenName(pair.key.path, Get(pair.val, "suggested_name", None))))

\* C30: organizing is idempotent on already organized files: a file whose
\* source path already equals its resolved destination directory joined
\* with its final name is left at that path, with outcome destination =
\* source.
C30_OrganizedFilesStay ==
    pc = "done" =>
        \A i \in 1..Len(categorizations) :
            AtHome(categorizations[i]) =>
                /\ categorizations[i].key.path \in DOMAIN disk
                /\ \A o \in Range(moved_files) :
                       o.source = PathStr(categorizations[i].key.path) =>
                           o.destination = o.source

=============================================================================
